---- MODULE Spec2Model ----
(***************************************************************************)
(* A model of the maxun-core workflow interpreter (class Interpreter):     *)
(* the guard matcher (applicable / inclusive), pair selection              *)
(* (getMatchingActionId), the per-page main loop (runLoop with             *)
(* carryOutSteps) and the run()/stop() protocol around the job pool.       *)
(***************************************************************************)
EXTENDS Integers, Sequences, FiniteSets, TLC

VARIABLES
    mWorkflow,  \* getMatchingActionId: the workflow copy it is given
    mState,     \* applicable / getMatchingActionId: the page state (context)
    mUsed,      \* applicable / getMatchingActionId: usedActions
    mResult,    \* what getMatchingActionId gave: Idx(i) (0-based), Undefined, Threw, or Unset
    gWhere,     \* applicable: the where clause (as found in the initialized workflow)
    gVerdict,   \* what applicable gave on runLoop's copy of gWhere: "T", "F", "E" (threw), or "unset"
    sPage,      \* getState: the page it reads: its URL, its cookies, the selectors attached
    sState,     \* what getState gave on sPage and mWorkflow, or Unset
    sch,        \* scrapeSchema: Interpreter.cumulativeResults and what the last call received and delivered
    cos,        \* carryOutSteps: the body, the step it is at, the calls it made on the page
    pag,        \* a scrapeList action: its config, the locals of handlePagination, its callbacks
    workflow,             \* Interpreter.workflow, as the constructor received it
    maxRepeats,           \* Interpreter.options.maxRepeats
    maxConcurrency,       \* Interpreter.options.maxConcurrency
    stopper,              \* Interpreter.stopper is set (TRUE) or null (FALSE)
    initializedWorkflow,  \* Interpreter.initializedWorkflow, or Null
    runs,                 \* each run() call: "idle", "scripts", "waiting", "returned", "threw"
    thrown,               \* the error the operation of the last step raised, or Null
    job,                  \* the job pool: each job's status, kind and submitter
    loop,                 \* each job's runLoop activation: its locals and position
    closed,               \* each job's page: p.isClosed()
    host                  \* the server's WorkflowInterpreter and the Interpreter it runs, or Null

matchVars == <<mWorkflow, mState, mUsed, mResult>>
guardVars == <<gWhere, gVerdict>>
funcVars == <<sPage, sState, pag, sch, cos>>
interpVars == <<workflow, maxRepeats, maxConcurrency, stopper, initializedWorkflow, runs, thrown, job, loop, closed>>
vars == <<mWorkflow, mState, mUsed, mResult, gWhere, gVerdict, sPage, sState, pag, sch, cos,
          workflow, maxRepeats, maxConcurrency, stopper, initializedWorkflow, runs, thrown,
          job, loop, closed, host>>

(***************************************************************************)
(* Bounds of the model.                                                    *)
(***************************************************************************)
MaxPairs == 2   \* longest workflow given to the matcher specification
MaxUsed == 2    \* longest usedActions list drawn as an input
MaxJobs == 2    \* jobs (page loops) submitted to the pool in one behaviour
MaxRuns == 2    \* run() calls in one behaviour
MaxExec == 5    \* body executions begun by one page loop
MaxLinks == 1   \* hrefs one enqueueLinks action finds

(***************************************************************************)
(* JavaScript values that occur in guards.  A string is Str(s); a RegExp   *)
(* is Re(S), S being the strings it accepts; Obj is the empty object {},   *)
(* which is what JSON.parse(JSON.stringify(/re/)) gives; Undefined is      *)
(* undefined.                                                              *)
(***************************************************************************)
Str(s) == [kind |-> "string", s |-> s]
Re(S) == [kind |-> "regex", accepts |-> S]
Obj == [kind |-> "object"]
Undefined == [kind |-> "undefined"]
Threw == [kind |-> "throw"]      \* not a value: the evaluation threw
Idx(i) == [kind |-> "index", i |-> i]
Unset == [kind |-> "unset"]      \* nothing computed yet
Null == [kind |-> "null"]

IsString(v) == v.kind = "string"
IsRegex(v) == v.kind = "regex"

\* JavaScript truthiness of a guard/state value: "" and undefined are falsy.
Truthy(v) == IF IsString(v) THEN v.s # "" ELSE v.kind # "undefined"

\* A guard entry: one key of a where object with its value.  A where object
\* is the sequence of its entries, in Object.entries order.
Entry(k, v) == [key |-> k, value |-> v]

operators == {"$and", "$or", "$not"}
meta == {"$before", "$after"}

\* Three-valued conjunction/negation over "T" (true), "F" (false), "E" (threw).
Not3(r) == IF r = "E" THEN "E" ELSE IF r = "T" THEN "F" ELSE "T"
Bool3(b) == IF b THEN "T" ELSE "F"

(***************************************************************************)
(* JSON.parse(JSON.stringify(workflow)) on guards: strings survive, a      *)
(* RegExp becomes the empty object.                                        *)
(***************************************************************************)
JSONCopyValue(v) == IF IsRegex(v) THEN Obj ELSE v

RECURSIVE JSONCopyWhere(_)
JSONCopyEntry(e) ==
    CASE e.key \in {"$and", "$or"} ->
            Entry(e.key, [i \in 1..Len(e.value) |-> JSONCopyWhere(e.value[i])])
      [] e.key = "$not" -> Entry(e.key, JSONCopyWhere(e.value))
      [] e.key = "selectors" -> e
      [] e.key = "cookies" ->
            Entry(e.key, [i \in 1..Len(e.value) |->
                            Entry(e.value[i].key, JSONCopyValue(e.value[i].value))])
      [] OTHER -> Entry(e.key, JSONCopyValue(e.value))
JSONCopyWhere(w) == [i \in 1..Len(w) |-> JSONCopyEntry(w[i])]

\* Each pair of the copy is a new object: ref stands for its identity.
JSONCopy(wf) ==
    [i \in 1..Len(wf) |->
        [ref |-> i, id |-> wf[i].id, where |-> JSONCopyWhere(wf[i].where), what |-> wf[i].what]]

Urls == {"u1", "u2"}

\* selector.includes(':>>') || selector.includes('>>')
SpecialSelectors == {"f:>>#x", "s>>#y"}
IsSpecial(sel) == sel \in SpecialSelectors

FilterSeq(s, Keep(_)) ==
    LET F[i \in 0..Len(s)] ==
            IF i = 0 THEN <<>>
            ELSE IF Keep(s[i]) THEN Append(F[i - 1], s[i]) ELSE F[i - 1]
    IN F[Len(s)]

NotSpecial(sel) == ~IsSpecial(sel)

removeSpecialEntry(e) ==
    IF e.key = "selectors" THEN Entry(e.key, FilterSeq(e.value, NotSpecial)) ELSE e

\* Only the top-level where.selectors of each pair is filtered.
removeSpecialSelectors(wf) ==
    [i \in 1..Len(wf) |->
        [wf[i] EXCEPT !.where = [k \in 1..Len(wf[i].where) |-> removeSpecialEntry(wf[i].where[k])]]]

(***************************************************************************)
(* applicable(where, context, usedActions) with its local inclusive().     *)
(***************************************************************************)
SeqHas(s, x) == \E i \in 1..Len(s) : s[i] = x

\* subset[key] of an object: the value of its entry, or Undefined.
RECURSIVE valueOf(_, _, _)
valueOf(object, key, i) ==
    IF i > Len(object) THEN Undefined
    ELSE IF object[i].key = key THEN object[i].value
    ELSE valueOf(object, key, i + 1)

\* Lines 303-311 for a scalar superset value: superset[key] && (=== || test || {} <= it).
scalarIncluded(value, supersetValue) ==
    /\ Truthy(supersetValue)
    /\ \/ supersetValue = value
       \/ IsRegex(value) /\ IsString(supersetValue) /\ supersetValue.s \in value.accepts
       \/ value.kind = "object"

\* Mutant: a selectors guard asks for all of its selectors (every for some).
inclusive_AllSelectors(key, value, context) ==
    CASE key = "selectors" ->
            IF Len(value) = 0 /\ Len(context.selectors) = 0 THEN TRUE
            ELSE \A i \in 1..Len(value) : SeqHas(context.selectors, value[i])
      [] key = "url" -> scalarIncluded(value, context.url)
      [] key = "cookies" ->
            \A i \in 1..Len(value) :
                scalarIncluded(value[i].value, valueOf(context.cookies, value[i].key, 1))
      [] OTHER -> FALSE

\* inclusive({[key]: value}, context) for the base conditions.
inclusive(key, value, context) ==
    CASE key = "selectors" ->
            IF Len(value) = 0 /\ Len(context.selectors) = 0 THEN TRUE
            ELSE \E i \in 1..Len(value) : SeqHas(context.selectors, value[i])
      [] key = "url" ->
            /\ Truthy(context.url)
            /\ \/ context.url = value
               \/ IsRegex(value) /\ IsString(context.url) /\ context.url.s \in value.accepts
               \/ value.kind = "object"    \* inclusive({}, superset): Object.entries({}).every
      [] key = "cookies" ->                \* inclusive(where.cookies, context.cookies)
            \A i \in 1..Len(value) :
                scalarIncluded(value[i].value, valueOf(context.cookies, value[i].key, 1))
      [] OTHER -> FALSE                     \* context[key] is undefined

\* testRegexString(x) of the meta branch: "T", "F", or "E" when value has no test().
testRegexString(value, x) ==
    IF IsString(value) THEN Bool3(x = value.s)
    ELSE IF IsRegex(value) THEN Bool3(x \in value.accepts)
    ELSE "E"

\* usedActions.find(testRegexString): the element found (a Str), Undefined, or Threw.
RECURSIVE find(_, _, _)
find(usedActions, value, i) ==
    IF i > Len(usedActions) THEN Undefined
    ELSE LET r == testRegexString(value, usedActions[i])
         IN IF r = "E" THEN Threw
            ELSE IF r = "T" THEN Str(usedActions[i])
            ELSE find(usedActions, value, i + 1)

RECURSIVE applicable(_, _, _)
RECURSIVE everyEntry(_, _, _, _)
RECURSIVE everyChild(_, _, _)
RECURSIVE someChild(_, _, _)

\* array.every((x) => this.applicable(x, context)): usedActions is not passed on.
everyChild(array, i, context) ==
    IF i > Len(array) THEN "T"
    ELSE LET r == applicable(array[i], context, <<>>)
         IN IF r = "T" THEN everyChild(array, i + 1, context) ELSE r

\* array.some((x) => this.applicable(x, context))
someChild(array, i, context) ==
    IF i > Len(array) THEN "F"
    ELSE LET r == applicable(array[i], context, <<>>)
         IN IF r = "F" THEN someChild(array, i + 1, context) ELSE r

\* Mutant: the cases of the meta switch are exchanged ($after tests like $before).
clause_MetaSwapped(e, context, usedActions) ==
    IF e.key \in operators THEN
        CASE e.key = "$and" -> everyChild(e.value, 1, context)
          [] e.key = "$or" -> someChild(e.value, 1, context)
          [] e.key = "$not" -> Not3(applicable(e.value, context, <<>>))
    ELSE IF e.key \in meta THEN
        LET f == find(usedActions, e.value, 1)
        IN IF f = Threw THEN "E"
           ELSE IF e.key = "$before" THEN Bool3(Truthy(f))
           ELSE Bool3(~Truthy(f))
    ELSE Bool3(inclusive(e.key, e.value, context))

\* The callback of Object.entries(where).every in applicable.
clause(e, context, usedActions) ==
    IF e.key \in operators THEN
        CASE e.key = "$and" -> everyChild(e.value, 1, context)
          [] e.key = "$or" -> someChild(e.value, 1, context)
          [] e.key = "$not" -> Not3(applicable(e.value, context, <<>>))
    ELSE IF e.key \in meta THEN
        LET f == find(usedActions, e.value, 1)
        IN IF f = Threw THEN "E"
           ELSE IF e.key = "$before" THEN Bool3(~Truthy(f))
           ELSE Bool3(Truthy(f))
    ELSE Bool3(inclusive(e.key, e.value, context))

everyEntry(where, i, context, usedActions) ==
    IF i > Len(where) THEN "T"
    ELSE LET r == clause(where[i], context, usedActions)
         IN IF r = "T" THEN everyEntry(where, i + 1, context, usedActions) ELSE r

applicable(where, context, usedActions) == everyEntry(where, 1, context, usedActions)

(***************************************************************************)
(* getMatchingActionId: indices are 0-based as in the source; pair k of    *)
(* the array is workflow[k + 1] here.                                      *)
(***************************************************************************)
RECURSIVE scanFrom(_, _, _, _)
scanFrom(wf, actionId, pageState, usedActions) ==
    IF actionId < 0 THEN Undefined
    ELSE LET isApplicable == applicable(wf[actionId + 1].where, pageState, usedActions)
         IN IF isApplicable = "E" THEN Threw
            ELSE IF isApplicable = "T" THEN Idx(actionId)
            ELSE scanFrom(wf, actionId - 1, pageState, usedActions)

RECURSIVE scanUpFrom(_, _, _, _)
scanUpFrom(wf, actionId, pageState, usedActions) ==
    IF actionId >= Len(wf) THEN Undefined
    ELSE LET isApplicable == applicable(wf[actionId + 1].where, pageState, usedActions)
         IN IF isApplicable = "E" THEN Threw
            ELSE IF isApplicable = "T" THEN Idx(actionId)
            ELSE scanUpFrom(wf, actionId + 1, pageState, usedActions)

\* Mutant: the first applicable pair from the head (wf.findIndex).
getMatchingActionId_FindIndex(wf, pageState, usedActions) ==
    scanUpFrom(wf, 0, pageState, usedActions)

getMatchingActionId(wf, pageState, usedActions) ==
    scanFrom(wf, Len(wf) - 1, pageState, usedActions)

\* runLoop works on a JSON copy without its special selectors (lines 984-986).
WorkflowCopyOf(wf) == removeSpecialSelectors(JSONCopy(wf))

(***************************************************************************)
(* getSelectors and getState.                                              *)
(***************************************************************************)
\* where[key] of a where object: the value of its entry, or Undefined.
RECURSIVE lookup(_, _, _)
lookup(where, key, i) ==
    IF i > Len(where) THEN Undefined
    ELSE IF where[i].key = key THEN where[i].value
    ELSE lookup(where, key, i + 1)

HasKey(where, key) == \E i \in 1..Len(where) : where[i].key = key

\* workflow[index]?.where?.selectors, as a sequence (absent: empty).
selectorsOf(where) == IF HasKey(where, "selectors") THEN lookup(where, "selectors", 1) ELSE <<>>

\* Array.from(new Set(list)): the list without its repetitions, in first-occurrence order.
Dedup(list) ==
    LET F[i \in 0..Len(list)] ==
            IF i = 0 THEN <<>>
            ELSE IF SeqHas(F[i - 1], list[i]) THEN F[i - 1] ELSE Append(F[i - 1], list[i])
    IN F[Len(list)]

RECURSIVE getSelectorsFrom(_, _)
getSelectorsFrom(wf, index) ==
    IF index < 0 THEN <<>>
    ELSE LET currentSelectors == selectorsOf(wf[index + 1].where)
         IN IF Len(currentSelectors) > 0 THEN Dedup(currentSelectors)
            ELSE getSelectorsFrom(wf, index - 1)

\* Mutant: the scan takes the first pair with selectors instead of the last.
getSelectors_FromHead(wf) ==
    LET withSelectors == {i \in 1..Len(wf) : Len(selectorsOf(wf[i].where)) > 0}
    IN  IF withSelectors = {} THEN <<>>
        ELSE Dedup(selectorsOf(wf[CHOOSE i \in withSelectors : \A k \in withSelectors : i <= k].where))

getSelectors(wf) == IF Len(wf) = 0 THEN <<>> ELSE getSelectorsFrom(wf, Len(wf) - 1)

\* The subsequence of `list` whose elements are in `keep`.
Restrict(list, keep) ==
    LET F[i \in 0..Len(list)] ==
            IF i = 0 THEN <<>>
            ELSE IF list[i] \in keep THEN Append(F[i - 1], list[i]) ELSE F[i - 1]
    IN F[Len(list)]

Range(list) == {list[i] : i \in 1..Len(list)}

\* Mutant: the state reports the URL of the page, whatever the last pair asks for.
getState_LiveUrl(liveUrl, attached, jar, workflowCopy, selectors) ==
    [url |-> Str(liveUrl), cookies |-> jar, selectors |-> Restrict(selectors, attached)]

\* getState(page, workflowCopy, selectors) on a page whose URL is `liveUrl`, on
\* which exactly the selectors in `attached` are attached and whose context
\* holds the cookies `jar`.
getState(liveUrl, attached, jar, workflowCopy, selectors) ==
    LET presentSelectors == Restrict(selectors, attached)
        hasAction == Len(workflowCopy) > 0
        whereUrl == IF hasAction
                    THEN lookup(workflowCopy[Len(workflowCopy)].where, "url", 1)
                    ELSE Undefined
        url == IF hasAction /\ whereUrl # Str(liveUrl) /\ whereUrl # Str("about:blank")
               THEN whereUrl
               ELSE Str(liveUrl)
    IN [url |-> url, cookies |-> jar, selectors |-> presentSelectors]

(***************************************************************************)
(* runLoop: the locals of one activation and the steps between its awaits. *)
(* exit, execs, consec and logged record what the activation did: by which *)
(* return it left, how many bodies it began, how many times in a row it    *)
(* began the body of the pair it began last, and how many errors it        *)
(* logged.  stopSeen records that stop() was called during its life, and    *)
(* stateSelectors holds pageState.selectors of the last getState, hrefs the *)
(* number of links the enqueueLinks of the body being carried out found.   *)
(***************************************************************************)
NoLoop ==
    [pc |-> "new", workflowCopy |-> <<>>, usedActions |-> <<>>, selectors |-> <<>>,
     lastAction |-> Null, actionId |-> Idx(-1), repeatCount |-> 0,
     step |-> 0, stateSelectors |-> <<>>, hrefs |-> 0,
     exit |-> "", execs |-> 0, consec |-> 0, logged |-> 0, stopSeen |-> FALSE]

\* An activation whose job the pool has retired: the model follows its page no
\* further and keeps only the workflow copy its popup handler would read.
retired(l) == [NoLoop EXCEPT !.pc = "gone", !.workflowCopy = l.workflowCopy]

\* runLoop returned: its locals are gone; the popup handler of its page still
\* holds the workflow copy.
leave(l, exit) ==
    [NoLoop EXCEPT !.pc = "done", !.exit = exit, !.workflowCopy = l.workflowCopy,
                   !.execs = l.execs, !.consec = l.consec, !.logged = l.logged,
                   !.stopSeen = l.stopSeen]

\* Lines 984-998: the copy and the locals.
runLoopStart(l, source) ==
    [l EXCEPT !.pc = "top", !.workflowCopy = WorkflowCopyOf(source)]

\* Lines 1013-1015: the check at the top of the loop.
loopTop(l, isClosed, hasStopper) ==
    IF isClosed \/ ~hasStopper
    THEN leave(l, "top")
    ELSE [l EXCEPT !.pc = "load"]

\* Mutant: the limit is reached one repetition earlier (>= for >).
repeatExceeded_AtLimit(repeatCount, limit) == limit # 0 /\ repeatCount >= limit

\* Mutant: the limit is compared one too high.
repeatExceeded_LateByOne(repeatCount, limit) == limit # 0 /\ repeatCount > limit + 1

\* Line 1065: this.options.maxRepeats && repeatCount > this.options.maxRepeats
repeatExceeded(repeatCount, limit) == limit # 0 /\ repeatCount > limit

\* Lines 1024-1068: after getState resolved with pageState, up to the call of carryOutSteps.
matchStep(l, pageState, limit) ==
    LET l1 == [l EXCEPT !.selectors = <<>>, !.stateSelectors = pageState.selectors]
        actionId == getMatchingActionId(l1.workflowCopy, pageState, l1.usedActions)
    IN IF actionId = Threw
       THEN [l1 EXCEPT !.pc = "threw", !.exit = "guard"]
       ELSE IF actionId = Undefined
       THEN leave(l1, "nomatch")
       ELSE LET action == l1.workflowCopy[actionId.i + 1]
                repeatCount == IF action = l1.lastAction THEN l1.repeatCount + 1 ELSE 0
            IN IF repeatExceeded(repeatCount, limit)
               THEN leave(l1, "repeat")
               ELSE [l1 EXCEPT !.actionId = actionId, !.repeatCount = repeatCount,
                               !.consec = IF action = l1.lastAction THEN l1.consec + 1 ELSE 1,
                               !.execs = l1.execs + 1,
                               !.lastAction = action, !.pc = "body", !.step = 1]

RemoveAt(list, k) == [i \in 1..(Len(list) - 1) |-> IF i < k THEN list[i] ELSE list[i + 1]]

\* action.id ?? 'undefined'
idOrUndefined(action) == IF IsString(action.id) THEN action.id.s ELSE "undefined"

\* Mutant: the splice removes the last pair of the copy instead of the matched one.
bodyDone_SpliceLast(l) ==
    LET action == l.workflowCopy[l.actionId.i + 1]
        rest == RemoveAt(l.workflowCopy, Len(l.workflowCopy))
    IN [l EXCEPT !.usedActions = Append(l.usedActions, idOrUndefined(action)),
                 !.workflowCopy = rest,
                 !.selectors = getSelectors(rest),
                 !.pc = "top", !.step = 0]

\* Mutant: the id is pushed but the pair stays in the copy.
bodyDone_KeepPair(l) ==
    LET action == l.workflowCopy[l.actionId.i + 1]
    IN [l EXCEPT !.usedActions = Append(l.usedActions, idOrUndefined(action)),
                 !.selectors = getSelectors(l.workflowCopy),
                 !.pc = "top", !.step = 0]

\* Lines 1073-1084: carryOutSteps resolved.
bodyDone(l) ==
    LET action == l.workflowCopy[l.actionId.i + 1]
        rest == RemoveAt(l.workflowCopy, l.actionId.i + 1)
    IN [l EXCEPT !.usedActions = Append(l.usedActions, idOrUndefined(action)),
                 !.workflowCopy = rest,
                 !.selectors = getSelectors(rest),
                 !.pc = "top", !.step = 0, !.hrefs = 0]

\* Mutant: no try/catch around the body, so a failing action rejects runLoop.
bodyFailed_Uncaught(l) == [l EXCEPT !.pc = "threw", !.exit = "body", !.step = 0]

\* Mutant: the pair whose body failed is recorded as fired all the same.
bodyFailed_Recorded(l) == [bodyDone(l) EXCEPT !.logged = l.logged + 1]

\* Lines 1085-1087: carryOutSteps rejected; the error is logged.
bodyFailed(l) == [l EXCEPT !.logged = l.logged + 1, !.pc = "top", !.step = 0, !.hrefs = 0]

(***************************************************************************)
(* carryOutSteps: what one step of a body can do.  "next": the step is     *)
(* over and the for loop goes on; "throw": the step rejected.              *)
(***************************************************************************)
Actions == {"noop", "goto", "click", "waitForLoadState", "enqueueLinks"}

stepOutcomes(action) ==
    CASE action = "noop" -> {"throw"}              \* page.noop is not a function
      [] action = "click" -> {"next"}              \* retried with force; a second failure is dropped
      [] action = "enqueueLinks" -> {"links", "throw"}
      [] OTHER -> {"next", "throw"}                \* a driver method, waitForLoadState and its retry

(***************************************************************************)
(* The job pool (utils/concurrency): at most maxConcurrency jobs run; the  *)
(* others wait; waitForCompletion resolves when the pool has drained.      *)
(***************************************************************************)
JobIds == 1..MaxJobs
RunIds == 1..MaxRuns

NoJob == [status |-> "none", kind |-> "none", parent |-> 0, during |-> {}]

Running(J) == {j \in JobIds : J[j].status = "running"}
Queued(J) == {j \in JobIds : J[j].status = "queued"}
Unused(J) == {j \in JobIds : J[j].status = "none"}
FreshId(J) == CHOOSE j \in Unused(J) : \A k \in Unused(J) : j <= k

ActiveRuns(R) == {r \in RunIds : R[r] \in {"scripts", "waiting"}}

\* during of a job: the run() calls in progress when it was submitted that are
\* in progress still.
stillDuring(J, R) == [j \in JobIds |-> [J[j] EXCEPT !.during = @ \cap ActiveRuns(R)]]

\* The job function is called: the synchronous start of what it runs.
startJob(P, j, initialized) ==
    LET source == IF P.job[j].kind = "popup"
                  THEN P.loop[P.job[j].parent].workflowCopy
                  ELSE initialized
    IN [job |-> [P.job EXCEPT ![j] = [NoJob EXCEPT !.status = "running",
                                                   !.during = P.job[j].during]],
        loop |-> [P.loop EXCEPT ![j] =
                    IF P.job[j].kind = "link"
                    THEN [NoLoop EXCEPT !.pc = "opening"]
                    ELSE runLoopStart(NoLoop, source)]]

addJob(P, kind, parent, during, initialized) ==
    LET j == FreshId(P.job)
        P1 == [P EXCEPT !.job[j] = [status |-> "queued", kind |-> kind,
                                    parent |-> parent, during |-> during]]
    IN IF Cardinality(Running(P.job)) < maxConcurrency
       THEN startJob(P1, j, initialized)
       ELSE P1

\* Mutant: the last link gets no job.
addJobs_AllButOne(P, n, kind, parent, during, initialized) ==
    IF n <= 1 THEN P
    ELSE addJob(P, kind, parent, during, initialized)

RECURSIVE addJobs(_, _, _, _, _, _)
addJobs(P, n, kind, parent, during, initialized) ==
    IF n = 0 THEN P
    ELSE addJobs(addJob(P, kind, parent, during, initialized), n - 1, kind, parent, during, initialized)

Pool == [job |-> job, loop |-> loop]

(***************************************************************************)
(* Preprocessor.initWorkflow: parameter substitution; the workflows here   *)
(* hold no placeholder.                                                    *)
(***************************************************************************)
initWorkflow(wf) == wf

(***************************************************************************)
(* The public operations.                                                  *)
(***************************************************************************)
Err(op, error) == [op |-> op, error |-> error]

\* run(), lines 1110-1135: up to the await of ensureScriptsLoaded.
RunCall(r) ==
    /\ runs[r] = "idle"
    /\ \A q \in RunIds : q < r => runs[q] # "idle"
    /\ IF stopper
       THEN /\ runs' = [runs EXCEPT ![r] = "threw"]
            /\ thrown' = Err("run", "already running")
            /\ UNCHANGED initializedWorkflow
       ELSE /\ runs' = [runs EXCEPT ![r] = "scripts"]
            /\ initializedWorkflow' = initWorkflow(workflow)
            /\ thrown' = Null
    /\ UNCHANGED <<workflow, maxRepeats, maxConcurrency, stopper, job, loop, closed, matchVars, guardVars, funcVars, host>>

\* Mutant: run() returns right after submitting the job, without awaiting the pool.
afterSubmit_NoAwait == "returned"

\* Line 1143: run() awaits the pool.
afterSubmit == "waiting"

\* run(), lines 1135-1143: ensureScriptsLoaded resolved; the stopper is set and
\* the top-level loop submitted.
RunStart(r) ==
    /\ runs[r] = "scripts"
    /\ Unused(job) # {}
    /\ LET P == addJob(Pool, "top", 0, ActiveRuns(runs), initializedWorkflow)
       IN /\ job' = P.job
          /\ loop' = P.loop
    /\ stopper' = TRUE
    /\ runs' = [runs EXCEPT ![r] = afterSubmit]
    /\ thrown' = Null
    /\ UNCHANGED <<workflow, maxRepeats, maxConcurrency, initializedWorkflow, closed, matchVars, guardVars, funcVars, host>>

\* run(), line 1135: ensureScriptsLoaded rejected (the page is gone).
RunScriptsFail(r) ==
    /\ runs[r] = "scripts"
    /\ runs' = [runs EXCEPT ![r] = "threw"]
    /\ thrown' = Err("run", "driver")
    /\ job' = stillDuring(job, runs')
    /\ UNCHANGED <<workflow, maxRepeats, maxConcurrency, stopper, initializedWorkflow, loop, closed,
                   matchVars, guardVars, funcVars, host>>

\* stop(), lines 1148-1155.
Stop ==
    /\ IF stopper
       THEN /\ stopper' = FALSE
            /\ loop' = [j \in JobIds |->
                          IF job[j].status \in {"queued", "running"}
                          THEN [loop[j] EXCEPT !.stopSeen = TRUE] ELSE loop[j]]
            /\ thrown' = Null
       ELSE /\ thrown' = Err("stop", "no running workflow")
            /\ UNCHANGED <<stopper, loop>>
    /\ UNCHANGED <<workflow, maxRepeats, maxConcurrency, initializedWorkflow, runs, job, closed,
                   matchVars, guardVars, funcVars, host>>

(***************************************************************************)
(* The steps of a page loop, one per await.                                *)
(***************************************************************************)
IsRunning(j) == job[j].status = "running"

\* enqueueLinks job, lines 397-400: the new page opened and loaded, runLoop starts.
OpenLink(j) ==
    /\ IsRunning(j) /\ loop[j].pc = "opening"
    /\ \/ loop' = [loop EXCEPT ![j] = runLoopStart(NoLoop, initializedWorkflow)]
       \/ loop' = [loop EXCEPT ![j] = leave([@ EXCEPT !.logged = @ + 1], "open")]
    /\ thrown' = Null
    /\ UNCHANGED <<workflow, maxRepeats, maxConcurrency, stopper, initializedWorkflow, runs, job, closed,
                   matchVars, guardVars, funcVars, host>>

LoopTop(j) ==
    /\ IsRunning(j) /\ loop[j].pc = "top"
    /\ loop' = [loop EXCEPT ![j] = loopTop(@, closed[j], stopper)]
    /\ thrown' = Null
    /\ UNCHANGED <<workflow, maxRepeats, maxConcurrency, stopper, initializedWorkflow, runs, job, closed,
                   matchVars, guardVars, funcVars, host>>

\* Lines 1017-1022: p.waitForLoadState() resolved, or rejected and the page is closed.
WaitForLoadState(j) ==
    /\ IsRunning(j) /\ loop[j].pc = "load"
    /\ \/ /\ loop' = [loop EXCEPT ![j].pc = "state"]
          /\ UNCHANGED closed
       \/ /\ loop' = [loop EXCEPT ![j] = leave(@, "load")]
          /\ closed' = [closed EXCEPT ![j] = TRUE]
    /\ thrown' = Null
    /\ UNCHANGED <<workflow, maxRepeats, maxConcurrency, stopper, initializedWorkflow, runs, job,
                   matchVars, guardVars, funcVars, host>>

\* Lines 1026-1068: getState resolved and the pair is chosen.
Observe(j) ==
    /\ IsRunning(j) /\ loop[j].pc = "state"
    /\ loop[j].execs < MaxExec
    /\ \E liveUrl \in Urls, attached \in SUBSET Range(loop[j].selectors) :
          loop' = [loop EXCEPT ![j] =
                     matchStep(@, getState(liveUrl, attached, <<>>, @.workflowCopy, @.selectors),
                               maxRepeats)]
    /\ thrown' = Null
    /\ UNCHANGED <<workflow, maxRepeats, maxConcurrency, stopper, initializedWorkflow, runs, job, closed,
                   matchVars, guardVars, funcVars, host>>

\* Lines 1030-1033: getState rejected.
ObserveFail(j) ==
    /\ IsRunning(j) /\ loop[j].pc = "state"
    /\ loop' = [loop EXCEPT ![j] = leave(@, "state")]
    /\ thrown' = Null
    /\ UNCHANGED <<workflow, maxRepeats, maxConcurrency, stopper, initializedWorkflow, runs, job, closed,
                   matchVars, guardVars, funcVars, host>>

CurrentStep(j) == loop[j].workflowCopy[loop[j].actionId.i + 1].what[loop[j].step]

\* Mutant: the for loop of carryOutSteps leaves out a step.
nextStep_SkipOne(l) == [l EXCEPT !.step = @ + 2]

\* Line 521, `for (const step of steps)`: on to the step that follows.
nextStep(l) == [l EXCEPT !.step = @ + 1]

InBody(j) ==
    /\ IsRunning(j) /\ loop[j].pc = "body"
    /\ loop[j].step <= Len(loop[j].workflowCopy[loop[j].actionId.i + 1].what)

\* carryOutSteps, lines 521-560: one step of the body went through.
StepNext(j) ==
    /\ InBody(j)
    /\ "next" \in stepOutcomes(CurrentStep(j))
    /\ loop' = [loop EXCEPT ![j] = nextStep(@)]
    /\ thrown' = Null
    /\ UNCHANGED <<workflow, maxRepeats, maxConcurrency, stopper, initializedWorkflow, runs, job, closed,
                   matchVars, guardVars, funcVars, host>>

\* enqueueLinks, lines 385-410: a job per link, then the page is closed.
StepEnqueueLinks(j) ==
    /\ InBody(j)
    /\ "links" \in stepOutcomes(CurrentStep(j))
    /\ \E n \in 0..MaxLinks :
          /\ n <= Cardinality(Unused(job))
          /\ LET P == addJobs([Pool EXCEPT !.loop[j].step = @ + 1, !.loop[j].hrefs = n],
                              n, "link", j,
                              ActiveRuns(runs), initializedWorkflow)
             IN /\ job' = P.job
                /\ loop' = P.loop
    /\ closed' = [closed EXCEPT ![j] = TRUE]
    /\ thrown' = Null
    /\ UNCHANGED <<workflow, maxRepeats, maxConcurrency, stopper, initializedWorkflow, runs, matchVars, guardVars, funcVars, host>>

\* A step rejected: carryOutSteps rejects and runLoop's catch logs the error.
StepThrow(j) ==
    /\ InBody(j)
    /\ "throw" \in stepOutcomes(CurrentStep(j))
    /\ loop' = [loop EXCEPT ![j] = bodyFailed(@)]
    /\ thrown' = Null
    /\ UNCHANGED <<workflow, maxRepeats, maxConcurrency, stopper, initializedWorkflow, runs, job, closed,
                   matchVars, guardVars, funcVars, host>>

\* The body is over: lines 1073-1084.
BodyDone(j) ==
    /\ IsRunning(j) /\ loop[j].pc = "body"
    /\ loop[j].step > Len(loop[j].workflowCopy[loop[j].actionId.i + 1].what)
    /\ loop' = [loop EXCEPT ![j] = bodyDone(@)]
    /\ thrown' = Null
    /\ UNCHANGED <<workflow, maxRepeats, maxConcurrency, stopper, initializedWorkflow, runs, job, closed,
                   matchVars, guardVars, funcVars, host>>

\* The job's promise settled: the pool starts a waiting job, or has drained and
\* every run() awaiting it goes on to line 1145 and returns.
JobFinished(j) ==
    /\ IsRunning(j) /\ loop[j].pc \in {"done", "threw"}
    /\ LET P0 == [Pool EXCEPT !.job[j] = [NoJob EXCEPT !.status = "finished"],
                               !.loop[j] = retired(loop[j])]
       IN IF Queued(job) # {}
          THEN /\ \E q \in Queued(job) :
                     LET P == startJob(P0, q, initializedWorkflow)
                     IN job' = P.job /\ loop' = P.loop
               /\ UNCHANGED <<runs, stopper>>
          ELSE /\ loop' = P0.loop
               /\ IF Running(P0.job) = {}
                  THEN /\ runs' = [r \in RunIds |-> IF runs[r] = "waiting" THEN "returned" ELSE runs[r]]
                       /\ stopper' = IF \E r \in RunIds : runs[r] = "waiting" THEN FALSE ELSE stopper
                       /\ job' = stillDuring(P0.job, runs')
                  ELSE /\ job' = P0.job
                       /\ UNCHANGED <<runs, stopper>>
    /\ closed' = [closed EXCEPT ![j] = FALSE]
    /\ thrown' = Null
    /\ UNCHANGED <<workflow, maxRepeats, maxConcurrency, initializedWorkflow, matchVars, guardVars, funcVars, host>>

(***************************************************************************)
(* The browser and the host.                                               *)
(***************************************************************************)
\* The page of a running loop is closed from outside.
ClosePage(j) ==
    /\ IsRunning(j) /\ ~closed[j]
    /\ closed' = [closed EXCEPT ![j] = TRUE]
    /\ thrown' = Null
    /\ UNCHANGED <<workflow, maxRepeats, maxConcurrency, stopper, initializedWorkflow, runs, job, loop,
                   matchVars, guardVars, funcVars, host>>

\* Lines 1005-1007: the page of loop j opens a popup; its handler submits a loop
\* for it on j's workflow copy.
Popup(j) ==
    /\ IsRunning(j)
    /\ loop[j].pc \notin {"new", "opening"} /\ loop[j].exit # "open"
    /\ ~closed[j]
    /\ Unused(job) # {}
    /\ LET P == addJob(Pool, "popup", j, ActiveRuns(runs), initializedWorkflow)
       IN /\ job' = P.job
          /\ loop' = P.loop
    /\ thrown' = Null
    /\ UNCHANGED <<workflow, maxRepeats, maxConcurrency, stopper, initializedWorkflow, runs, closed,
                   matchVars, guardVars, funcVars, host>>

LoopStep(j) ==
    \/ OpenLink(j)
    \/ LoopTop(j)
    \/ WaitForLoadState(j)
    \/ Observe(j)
    \/ ObserveFail(j)
    \/ StepNext(j)
    \/ StepEnqueueLinks(j)
    \/ StepThrow(j)
    \/ BodyDone(j)
    \/ JobFinished(j)

\* The variables of the single-function specifications, when not in use.
FuncIdle ==
    /\ sPage = Null
    /\ sState = Unset
    /\ pag = Null
    /\ sch = Null
    /\ cos = Null

\* No WorkflowInterpreter of the server takes part.
NoHost == host = Null

\* The interpreter as constructed: nothing runs.
Idle ==
    /\ stopper = FALSE
    /\ initializedWorkflow = Null
    /\ runs = [r \in RunIds |-> "idle"]
    /\ thrown = Null
    /\ job = [j \in JobIds |-> NoJob]
    /\ loop = [j \in JobIds |-> NoLoop]
    /\ closed = [j \in JobIds |-> FALSE]

(***************************************************************************)
(* Inputs of the matcher specifications.                                   *)
(***************************************************************************)
Ids == {"login", "a", ""}

RECURSIVE SeqsUpTo(_, _)
SeqsUpTo(S, n) ==
    IF n = 0 THEN {<<>>}
    ELSE LET shorter == SeqsUpTo(S, n - 1)
         IN shorter \cup {Append(q, x) : q \in {r \in shorter : Len(r) = n - 1}, x \in S}

UsedLists == SeqsUpTo(Ids, MaxUsed)

Jars == { <<>>, <<Entry("sid", Str("abc"))>>, <<Entry("sid", Str(""))>> }

PageStates ==
    [url : {Str(u) : u \in Urls} \cup {Undefined},
     cookies : Jars,
     selectors : {<<>>, <<"#a">>, <<"#b">>}]

\* Where clauses of initialized workflows: leaves, meta predicates, combinators.
MetaLeaves ==
    {<<Entry(k, v)>> : k \in meta, v \in {Str("login"), Str(""), Re({"login", "a"})}}

BaseLeaves ==
    { <<>>,
      <<Entry("url", Str("u1"))>>,
      <<Entry("url", Re({"u1"}))>>,
      <<Entry("selectors", <<"#a">>)>>,
      <<Entry("selectors", <<"#a", "#b">>)>>,
      <<Entry("selectors", <<>>)>>,
      <<Entry("cookies", <<Entry("sid", Str("abc"))>>)>>,
      <<Entry("cookies", <<Entry("sid", Str(""))>>)>>,
      <<Entry("cookies", <<Entry("sid", Re({"abc"}))>>)>> }

Combined(leaves) ==
    {<<Entry("$and", <<w>>)>> : w \in leaves}
      \cup {<<Entry("$or", <<w>>)>> : w \in leaves}
      \cup {<<Entry("$not", w)>> : w \in leaves}

\* Guards with a `$` key that is neither a logic operator nor a meta key.
UnknownOperatorWheres ==
    { <<Entry("$xor", Str("u1"))>>,
      <<Entry("$nor", Obj)>>,
      <<Entry("url", Str("u1")), Entry("$xor", Str("u1"))>> }

GuardWheres ==
    MetaLeaves \cup BaseLeaves \cup Combined(MetaLeaves) \cup Combined(BaseLeaves)
      \cup { <<Entry("$and", <<w, <<Entry("url", Str("u1"))>> >>)>> : w \in MetaLeaves }
      \cup { <<Entry("$or", << <<Entry("url", Str("u1"))>>, w>>)>> : w \in MetaLeaves }
      \cup { <<Entry("url", Str("u1")), Entry("$after", Str("login"))>>,
             <<Entry("$not", <<Entry("$and", << <<Entry("$before", Str("login"))>> >>)>>)>> }
      \cup UnknownOperatorWheres

MatchWheres ==
    { <<>>,
      <<Entry("url", Str("u1"))>>,
      <<Entry("selectors", <<"#a", "f:>>#x">>)>>,
      <<Entry("$after", Str("login"))>>,
      <<Entry("$before", Str("login"))>>,
      <<Entry("$after", Re({"login"}))>>,
      <<Entry("url", Str("u2")), Entry("$or", << <<Entry("selectors", <<>>)>> >>)>> }

Pair(id, where, what) == [id |-> id, where |-> where, what |-> what]

MatchWorkflows ==
    UNION { [1..n -> {Pair(Str("p"), w, <<>>) : w \in MatchWheres}] : n \in 0..MaxPairs }

(***************************************************************************)
(* SpecMatch: getMatchingActionId applied to drawn inputs.                 *)
(***************************************************************************)
InitMatch ==
    /\ mWorkflow \in {WorkflowCopyOf(w) : w \in MatchWorkflows}
    /\ mState \in PageStates
    /\ mUsed \in UsedLists
    /\ mResult = Unset
    /\ gWhere = <<>>
    /\ gVerdict = "unset"
    /\ FuncIdle
    /\ workflow = <<>>
    /\ maxRepeats = 5
    /\ maxConcurrency = 5
    /\ Idle
    /\ NoHost

Match ==
    /\ mResult = Unset
    /\ mResult' = getMatchingActionId(mWorkflow, mState, mUsed)
    /\ UNCHANGED <<mWorkflow, mState, mUsed, guardVars, funcVars, interpVars, host>>

NextMatch == Match

SpecMatch == InitMatch /\ [][NextMatch]_vars

(***************************************************************************)
(* SpecGuard: applicable applied to runLoop's copy of a drawn where.       *)
(***************************************************************************)
InitGuard ==
    /\ gWhere \in GuardWheres
    /\ mState \in PageStates
    /\ mUsed \in UsedLists
    /\ gVerdict = "unset"
    /\ FuncIdle
    /\ mWorkflow = <<>>
    /\ mResult = Unset
    /\ workflow = <<>>
    /\ maxRepeats = 5
    /\ maxConcurrency = 5
    /\ Idle
    /\ NoHost

Evaluate ==
    /\ gVerdict = "unset"
    /\ gVerdict' = applicable(JSONCopyWhere(gWhere), mState, mUsed)
    /\ UNCHANGED <<gWhere, matchVars, funcVars, interpVars, host>>

NextGuard == Evaluate

SpecGuard == InitGuard /\ [][NextGuard]_vars

(***************************************************************************)
(* SpecState: getState applied to drawn pages and workflow copies, with    *)
(* the selectors runLoop would pass for that copy.                         *)
(***************************************************************************)
StateWorkflows ==
    { <<>>,
      <<Pair(Str("a"), <<Entry("url", Str("u1"))>>, <<>>)>>,
      <<Pair(Str("a"), <<Entry("url", Str("about:blank"))>>, <<>>)>>,
      <<Pair(Str("a"), <<Entry("url", Re({"u1"}))>>, <<>>)>>,
      <<Pair(Str("a"), <<Entry("url", Str(""))>>, <<>>)>>,
      <<Pair(Str("a"), <<Entry("selectors", <<"#a">>)>>, <<>>)>>,
      <<Pair(Str("a"), <<>>, <<>>)>>,
      <<Pair(Str("a"), <<Entry("url", Str("u1"))>>, <<>>),
        Pair(Str("b"), <<Entry("url", Str("u2")), Entry("selectors", <<"#a", "#b">>)>>, <<>>)>>,
      <<Pair(Str("a"), <<Entry("url", Str("u1"))>>, <<>>),
        Pair(Str("b"), <<Entry("selectors", <<"#b">>)>>, <<>>)>> }

Pages ==
    [url : Urls \cup {"about:blank"}, cookies : Jars, attached : SUBSET {"#a", "#b"}]

InitState ==
    /\ mWorkflow \in {WorkflowCopyOf(w) : w \in StateWorkflows}
    /\ sPage \in Pages
    /\ sState = Unset
    /\ pag = Null
    /\ sch = Null
    /\ cos = Null
    /\ mState = Null /\ mUsed = <<>> /\ mResult = Unset
    /\ gWhere = <<>> /\ gVerdict = "unset"
    /\ workflow = <<>>
    /\ maxRepeats = 5
    /\ maxConcurrency = 5
    /\ Idle
    /\ NoHost

GetState ==
    /\ sState = Unset
    /\ sState' = getState(sPage.url, sPage.attached, sPage.cookies,
                          mWorkflow, getSelectors(mWorkflow))
    /\ UNCHANGED <<sPage, pag, sch, cos, matchVars, guardVars, interpVars, host>>

NextState == GetState

SpecState == InitState /\ [][NextState]_vars

(***************************************************************************)
(* SpecLoop: one page loop, from the state in which run() has submitted    *)
(* the top-level job and awaits the pool, on drawn workflows and limits.   *)
(***************************************************************************)
RepeatScenario == <<Pair(Undefined, <<>>, <<"noop">>)>>

\* P1 gated by the selector #next, then P2 gated by the URL of the page after it (u2).
GatingScenario ==
    <<Pair(Str("P1"), <<Entry("selectors", <<"#next">>)>>, <<"click">>),
      Pair(Str("P2"), <<Entry("url", Re({"u2"}))>>, <<"scrape">>)>>

\* Two pairs gated by selectors under a pair that matches every state.
SelectorScenario ==
    <<Pair(Str("s1"), <<Entry("selectors", <<"#a">>)>>, <<"click">>),
      Pair(Str("s2"), <<Entry("selectors", <<"#b", "#b">>)>>, <<"click">>),
      Pair(Str("go"), <<>>, <<"goto">>)>>

LoopWorkflows ==
    { <<>>,
      RepeatScenario,
      GatingScenario,
      <<Pair(Str("p"), <<Entry("$after", Str("login"))>>, <<"goto">>),
        Pair(Str("login"), <<Entry("$before", Str("login"))>>, <<"click", "goto">>)>>,
      <<Pair(Str("a"), <<Entry("selectors", <<"#next">>)>>, <<"click">>),
        Pair(Undefined, <<Entry("url", Str("u2"))>>, <<>>)>>,
      <<Pair(Str("a"), <<>>, <<"waitForLoadState">>),
        Pair(Str("z"), <<Entry("$after", Str("a"))>>, <<"noop">>)>>,
      SelectorScenario }

RepeatOptions == {0, 1, 3}

InitLoop ==
    /\ workflow \in LoopWorkflows
    /\ maxRepeats \in RepeatOptions
    /\ maxConcurrency = 5
    /\ stopper = TRUE
    /\ initializedWorkflow = initWorkflow(workflow)
    /\ runs = [r \in RunIds |-> IF r = 1 THEN "waiting" ELSE "idle"]
    /\ thrown = Null
    /\ job = [j \in JobIds |->
                IF j = 1 THEN [NoJob EXCEPT !.status = "running", !.during = {1}]
                ELSE NoJob]
    /\ loop = [j \in JobIds |-> IF j = 1 THEN runLoopStart(NoLoop, initWorkflow(workflow)) ELSE NoLoop]
    /\ closed = [j \in JobIds |-> FALSE]
    /\ mWorkflow = <<>> /\ mState = Null /\ mUsed = <<>> /\ mResult = Unset
    /\ gWhere = <<>> /\ gVerdict = "unset"
    /\ FuncIdle
    /\ NoHost

NextLoop ==
    \/ LoopTop(1)
    \/ WaitForLoadState(1)
    \/ Observe(1)
    \/ ObserveFail(1)
    \/ StepNext(1)
    \/ StepThrow(1)
    \/ BodyDone(1)
    \/ JobFinished(1)
    \/ ClosePage(1)
    \/ Stop

SpecLoop == InitLoop /\ [][NextLoop]_vars

(***************************************************************************)
(* Spec: the interpreter from its construction, with run() and stop()      *)
(* called in any order, popups, enqueued links and the job pool.           *)
(***************************************************************************)
RunWorkflows ==
    { <<Pair(Str("p"), <<Entry("$after", Re({"login"}))>>, <<"click">>),
        Pair(Str("login"), <<>>, <<"click">>)>>,
      <<Pair(Str("links"), <<Entry("$before", Str("links"))>>, <<"enqueueLinks">>)>> }

ConcurrencyOptions == {1, 2}

Init ==
    /\ workflow \in RunWorkflows
    /\ maxRepeats = 1
    /\ maxConcurrency \in ConcurrencyOptions
    /\ Idle
    /\ NoHost
    /\ mWorkflow = <<>> /\ mState = Null /\ mUsed = <<>> /\ mResult = Unset
    /\ gWhere = <<>> /\ gVerdict = "unset"
    /\ FuncIdle

Next ==
    \/ \E r \in RunIds : RunCall(r) \/ RunStart(r) \/ RunScriptsFail(r)
    \/ Stop
    \/ \E j \in JobIds : LoopStep(j) \/ Popup(j)

Spec == Init /\ [][Next]_vars

(***************************************************************************)
(* C1: pair selection.  Whenever getMatchingActionId returns index i, the  *)
(* guard of pair i is applicable in the given page state and fired-id list *)
(* and no pair at an index j > i is; it returns no index (undefined) only  *)
(* when no pair is applicable.                                             *)
(***************************************************************************)
ApplicableAt(j) == applicable(mWorkflow[j + 1].where, mState, mUsed)

C1_PairSelection ==
    /\ mResult.kind = "index" =>
            /\ mResult.i \in 0..(Len(mWorkflow) - 1)
            /\ ApplicableAt(mResult.i) = "T"
            /\ \A j \in (mResult.i + 1)..(Len(mWorkflow) - 1) : ApplicableAt(j) = "F"
    /\ mResult = Undefined =>
            \A j \in 0..(Len(mWorkflow) - 1) : ApplicableAt(j) = "F"

\* Two applicable pairs, and the later one was returned.
C1_Witness ==
    /\ Len(mWorkflow) = 2
    /\ mResult = Idx(1)
    /\ ApplicableAt(0) = "T"
    /\ mWorkflow[1].where # mWorkflow[2].where

(***************************************************************************)
(* C10: meta predicates.  `$after: X` holds iff some id in firedIds equals *)
(* X (string) or matches X (regex), `$before: X` iff none does, at every   *)
(* position of the guard tree, also inside $and, $or and $not.  Stated for *)
(* the where clauses built of meta predicates and combinators only.        *)
(***************************************************************************)
HasFired(x, firedIds) ==
    \E i \in 1..Len(firedIds) :
        IF IsString(x) THEN firedIds[i] = x.s ELSE firedIds[i] \in x.accepts

RECURSIVE IsMetaTree(_)
IsMetaTree(w) ==
    \A i \in 1..Len(w) :
        CASE w[i].key \in meta -> TRUE
          [] w[i].key \in {"$and", "$or"} ->
                \A k \in 1..Len(w[i].value) : IsMetaTree(w[i].value[k])
          [] w[i].key = "$not" -> IsMetaTree(w[i].value)
          [] OTHER -> FALSE

RECURSIVE MetaHolds(_, _)
MetaHolds(w, firedIds) ==
    \A i \in 1..Len(w) :
        CASE w[i].key = "$after" -> HasFired(w[i].value, firedIds)
          [] w[i].key = "$before" -> ~HasFired(w[i].value, firedIds)
          [] w[i].key = "$and" ->
                \A k \in 1..Len(w[i].value) : MetaHolds(w[i].value[k], firedIds)
          [] w[i].key = "$or" ->
                \E k \in 1..Len(w[i].value) : MetaHolds(w[i].value[k], firedIds)
          [] w[i].key = "$not" -> ~MetaHolds(w[i].value, firedIds)

C10_MetaEverywhere ==
    (gVerdict # "unset" /\ IsMetaTree(gWhere)) =>
        gVerdict = Bool3(MetaHolds(gWhere, mUsed))

(***************************************************************************)
(* C2: firing.  Every time a page loop has executed the body of a matched  *)
(* pair and the body completed without raising, the pair's id (the string  *)
(* 'undefined' for a pair without id) is appended to usedActions exactly   *)
(* once and that pair, and no other, is removed from the loop's workflow   *)
(* copy before the next matching decision.                                 *)
(***************************************************************************)
Fired(j) == loop[j].workflowCopy[loop[j].actionId.i + 1]

Recorded(j) ==
    /\ loop'[j].usedActions = Append(loop[j].usedActions, idOrUndefined(Fired(j)))
    /\ Len(loop'[j].workflowCopy) = Len(loop[j].workflowCopy) - 1
    /\ \A k \in 1..Len(loop'[j].workflowCopy) : loop'[j].workflowCopy[k].ref # Fired(j).ref
    /\ \A k \in 1..Len(loop[j].workflowCopy) :
            loop[j].workflowCopy[k] # Fired(j) =>
                \E m \in 1..Len(loop'[j].workflowCopy) :
                    loop'[j].workflowCopy[m] = loop[j].workflowCopy[k]

BodyOver(j) == loop[j].pc = "body" /\ loop'[j].pc = "top"

C2_FiringRecorded ==
    [][\A j \in JobIds :
          (BodyOver(j) /\ loop'[j].logged = loop[j].logged) => Recorded(j)]_vars

\* C2 as written: every firing, also one whose body raised, is recorded.
C2_EveryFiringRecorded ==
    [][\A j \in JobIds : BodyOver(j) => Recorded(j)]_vars

\* A body failed and was logged, a later body completed: one id, one pair less.
C2_Witness ==
    /\ loop[1].pc = "top"
    /\ loop[1].logged > 0
    /\ Len(loop[1].usedActions) = 1
    /\ Len(loop[1].workflowCopy) = Len(workflow) - 1

(***************************************************************************)
(* C3: repetition.  With a limit maxRepeats other than 0, no page loop     *)
(* begins the body of one pair more than maxRepeats + 1 times in a row.    *)
(***************************************************************************)
C3_ConsecutiveLimit ==
    \A j \in JobIds : maxRepeats # 0 => loop[j].consec <= maxRepeats + 1

\* C3 as written: at most maxRepeats executions in a row.
C3_AtMostMaxRepeats ==
    \A j \in JobIds : loop[j].consec <= maxRepeats

\* The limit is met: maxRepeats + 1 executions in a row, then the loop returned.
C3_Witness ==
    /\ maxRepeats = 1
    /\ loop[1].pc = "done" /\ loop[1].exit = "repeat"
    /\ loop[1].consec = 2

(***************************************************************************)
(* C4: in every state of every page loop repeatCount <= maxRepeats + 1,    *)
(* for every maxRepeats >= 0.                                              *)
(***************************************************************************)
C4_RepeatCountBound ==
    \A j \in JobIds : loop[j].repeatCount <= maxRepeats + 1

(***************************************************************************)
(* C5: the repeat guard scenario.  One pair whose guard matches every      *)
(* state and whose body is the action 'noop', maxRepeats = 3: the loop     *)
(* begins the body at most 4 times, never finds the pair inapplicable, and *)
(* when the repeat limit ends it the body has been executed exactly 4      *)
(* times.                                                                  *)
(***************************************************************************)
InRepeatScenario == workflow = RepeatScenario /\ maxRepeats = 3

C5_RepeatScenario ==
    InRepeatScenario =>
        /\ loop[1].execs <= 4
        /\ loop[1].exit # "nomatch"
        /\ loop[1].exit = "repeat" => loop[1].execs = 4 /\ loop[1].logged = 4

C5_Witness ==
    /\ InRepeatScenario
    /\ loop[1].exit = "repeat"
    /\ loop[1].execs = 4

(***************************************************************************)
(* C6: cancellation.  Once stop() has been called during the life of a     *)
(* page loop, the loop's next check at the top of the loop makes it        *)
(* return: it begins no further iteration.                                 *)
(***************************************************************************)
C6_StopEndsLoops ==
    [][\A j \in JobIds :
          (loop[j].stopSeen /\ loop[j].pc = "top" /\ loop'[j] # loop[j])
              => loop'[j].pc = "done"]_vars

(***************************************************************************)
(* C7: at most one run() call is in progress at any time.                  *)
(***************************************************************************)
C7_SingleActiveRun == Cardinality(ActiveRuns(runs)) <= 1

(***************************************************************************)
(* C8: run() returns only after every job submitted to the pool while it   *)
(* was in progress has finished.                                           *)
(***************************************************************************)
C8_RunAwaitsJobs ==
    [][\A r \in RunIds :
          (runs[r] # "returned" /\ runs'[r] = "returned") =>
              \A j \in JobIds :
                  (r \in job[j].during \/ r \in job'[j].during)
                      => job'[j].status = "finished"]_vars

\* The first run() has returned after two jobs ran, and no other was called.
C8_Witness ==
    /\ runs[1] = "returned"
    /\ \A r \in RunIds : r # 1 => runs[r] = "idle"
    /\ Cardinality({j \in JobIds : job[j].status = "finished"}) = 2

RequiresAfterLogin(where) ==
    \E i \in 1..Len(where) : where[i] = Entry("$after", Str("login"))

LoginPairs(wf) == {i \in 1..Len(wf) : wf[i].id = Str("login")}

C11_AfterLoginOrdering ==
    \A j \in JobIds :
        (loop[j].pc = "body" /\ RequiresAfterLogin(Fired(j).where)) =>
            /\ SeqHas(loop[j].usedActions, "login")
            /\ Cardinality(LoginPairs(loop[j].workflowCopy))
                   < Cardinality(LoginPairs(workflow))

\* The pair guarded by $after: "login" is being executed, login having fired.
C11_Witness ==
    /\ loop[1].pc = "body"
    /\ RequiresAfterLogin(Fired(1).where)
    /\ loop[1].usedActions = <<"login">>

(***************************************************************************)
(* C12: boolean combinators.  A guard made of one `$and` matches iff every *)
(* child, taken as a guard of its own in the same state and with the same  *)
(* fired ids, matches; one `$or` iff at least one child does; one `$not`   *)
(* iff its child does not.                                                 *)
(***************************************************************************)
ChildMatches(w) == applicable(JSONCopyWhere(w), mState, mUsed) = "T"

CombinatorHolds(e) ==
    CASE e.key = "$and" -> \A k \in 1..Len(e.value) : ChildMatches(e.value[k])
      [] e.key = "$or" -> \E k \in 1..Len(e.value) : ChildMatches(e.value[k])
      [] e.key = "$not" -> ~ChildMatches(e.value)

IsCombinator(w) == Len(w) = 1 /\ w[1].key \in operators

C12_Combinators ==
    (gVerdict # "unset" /\ IsCombinator(gWhere)) =>
        ((gVerdict = "T") <=> CombinatorHolds(gWhere[1]))

(***************************************************************************)
(* C13: the selectors predicate.  A guard {selectors: G} matches exactly   *)
(* when G and state.selectors share a selector, or both lists are empty.   *)
(***************************************************************************)
IsLeaf(w, key) == Len(w) = 1 /\ w[1].key = key

SelectorsMatch(G, stateSelectors) ==
    \/ Range(G) \cap Range(stateSelectors) # {}
    \/ G = <<>> /\ stateSelectors = <<>>

C13_Selectors ==
    (gVerdict # "unset" /\ IsLeaf(gWhere, "selectors")) =>
        gVerdict = Bool3(SelectorsMatch(gWhere[1].value, mState.selectors))

\* A guard of two selectors matched a state that holds only the second.
C13_Witness ==
    /\ gWhere = <<Entry("selectors", <<"#a", "#b">>)>>
    /\ mState.selectors = <<"#b">>
    /\ gVerdict = "T"

(***************************************************************************)
(* C14: the cookies predicate.  A guard {cookies: C} matches iff for every *)
(* (name, v) of C the state has a cookie of that name whose value equals v *)
(* (string) or is accepted by v (regex), whatever the value is.            *)
(***************************************************************************)
CookieExpected(v, value) ==
    IF IsString(v) THEN value = v ELSE value.s \in v.accepts

CookiesMatch(C, jar) ==
    \A i \in 1..Len(C) :
        \E k \in 1..Len(jar) :
            jar[k].key = C[i].key /\ CookieExpected(C[i].value, jar[k].value)

C14_Cookies ==
    (gVerdict # "unset" /\ IsLeaf(gWhere, "cookies")) =>
        gVerdict = Bool3(CookiesMatch(gWhere[1].value, mState.cookies))

(***************************************************************************)
(* C15: the URL of the state.  getState reports the live URL of the page,  *)
(* except that when the last pair of the workflow copy has a where.url     *)
(* that differs from the live URL and is not about:blank it reports that   *)
(* where.url; with an empty copy, or a last pair without url guard, it     *)
(* reports the live URL.                                                   *)
(***************************************************************************)
LastWhere == mWorkflow[Len(mWorkflow)].where

ExpectedUrl ==
    IF /\ Len(mWorkflow) > 0
       /\ HasKey(LastWhere, "url")
       /\ lookup(LastWhere, "url", 1) # Str(sPage.url)
       /\ lookup(LastWhere, "url", 1) # Str("about:blank")
    THEN lookup(LastWhere, "url", 1)
    ELSE Str(sPage.url)

C15_StateUrl == sState # Unset => sState.url = ExpectedUrl

(***************************************************************************)
(* C16: deep-copy equivalence.  Evaluating a guard on the copy of the      *)
(* workflow that the main loop works on gives what evaluating the guard of *)
(* the workflow itself gives, in every state and for every fired-id list.  *)
(***************************************************************************)
C16_CopyEquivalence ==
    gVerdict # "unset" => gVerdict = applicable(gWhere, mState, mUsed)

(***************************************************************************)
(* scrapeList and handlePagination (lines 460-469 and 563-936).            *)
(*                                                                         *)
(* A record of the list is an object: ref is its identity and name the     *)
(* one property it carries.  A string of selectors is given by its         *)
(* comma-separated parts.  limit = 0 stands for a limit that is missing or *)
(* 0: both are falsy in checkLimit.                                        *)
(***************************************************************************)
MaxRounds == 3      \* how often the page lets the pagination loop go around
MaxList == 2        \* the longest list window.scrapeList returns
MAX_NO_NEW_ITEMS == 2
MAX_RETRIES == 3

Items == [ref : {1, 2}, name : {"a", "b"}]

JSONstringify(item) == "{\"name\":\"" \o item.name \o "\"}"

Lists == UNION {[1..n -> Items] : n \in 0..MaxList}

Heights == {0, 100, 200}

PaginationTypes == {"scrollDown", "scrollUp", "clickNext", "clickLoadMore", "none"}

Paginations ==
    {Null} \cup [type : PaginationTypes,
                 selector : {Undefined, Str(<<".next">>), Str(<<".bad", ".next">>)}]

Configs == [pagination : Paginations, limit : {0, 1, 2}]

split(string) == string.s

\* The scrapeList action before it starts, with the locals of handlePagination.
newScrape(config) ==
    [pc |-> "idle", config |-> config,
     allResults |-> <<>>, scrapedItems |-> {}, previousHeight |-> 0,
     availableSelectors |-> <<>>, previousResultCount |-> 0, noNewItemsCounter |-> 0,
     attempts |-> <<>>, exit |-> "none",
     rounds |-> 0, scrapeResults |-> <<>>, callbacks |-> <<>>, raised |-> "none"]

\* results.filter(...) of scrapeCurrentPage: the set grows while it filters.
RECURSIVE newResults(_, _)
newResults(results, seen) ==
    IF results = <<>> THEN <<>>
    ELSE LET uniqueKey == JSONstringify(Head(results))
         IN  IF uniqueKey \in seen
             THEN newResults(Tail(results), seen)
             ELSE <<Head(results)>> \o newResults(Tail(results), seen \cup {uniqueKey})

scrapeCurrentPage_Delivering(p, results) ==
    [p EXCEPT !.allResults = @ \o newResults(results, p.scrapedItems),
              !.scrapedItems = @ \cup {JSONstringify(results[i]) : i \in 1..Len(results)},
              !.callbacks = Append(@, newResults(results, p.scrapedItems))]

scrapeCurrentPage(p, results) ==
    [p EXCEPT !.allResults = @ \o newResults(results, p.scrapedItems),
              !.scrapedItems = @ \cup {JSONstringify(results[i]) : i \in 1..Len(results)}]

\* What checkLimit returns, and what it leaves in allResults.
limitReached(p) == p.config.limit # 0 /\ Len(p.allResults) >= p.config.limit

checkLimit(p) ==
    IF limitReached(p)
    THEN [p EXCEPT !.allResults = SubSeq(@, 1, p.config.limit)]
    ELSE p

\* Mutant: findWorkingButton gives back the list it was given.
updatedSelectors_KeepFailed(selectors, k) == selectors

\* findWorkingButton: the selectors before the k-th gave up after MAX_RETRIES
\* attempts and are removed; k = 0 when none of them works.
updatedSelectors(selectors, k) ==
    LET failed == {selectors[i] : i \in 1..(IF k = 0 THEN Len(selectors) ELSE k - 1)}
    IN  SelectSeq(selectors, LAMBDA s : s \notin failed)

\* One page.waitForSelector of findWorkingButton: it gave a button or raised.
Attempt(selector, ok) == [selector |-> selector, ok |-> ok]

\* The waitForSelector calls of one findWorkingButton(selectors), in order: the
\* selectors before the k-th raise MAX_RETRIES times each, the k-th raises
\* `misses` times and then gives the button.
RECURSIVE attemptsOf(_, _, _, _)
attemptsOf(selectors, i, k, misses) ==
    IF i > Len(selectors) THEN <<>>
    ELSE IF i = k
         THEN [n \in 1..misses |-> Attempt(selectors[i], FALSE)] \o <<Attempt(selectors[i], TRUE)>>
         ELSE [n \in 1..MAX_RETRIES |-> Attempt(selectors[i], FALSE)]
                \o attemptsOf(selectors, i + 1, k, misses)

\* availableSelectors = updatedSelectors, after findWorkingButton(availableSelectors).
findWorkingButton(p, k, misses) ==
    [p EXCEPT !.availableSelectors = updatedSelectors(@, k),
              !.attempts = attemptsOf(p.availableSelectors, 1, k, misses)]

\* Mutant: new items do not reset the count of clicks without new items.
countNewItems_NoReset(p) ==
    IF Len(p.allResults) > p.previousResultCount
    THEN [p EXCEPT !.previousResultCount = Len(p.allResults)]
    ELSE [p EXCEPT !.noNewItemsCounter = @ + 1]

\* Lines 897-910 of clickLoadMore: newItemsAdded and the two counters.
countNewItems(p) ==
    IF Len(p.allResults) > p.previousResultCount
    THEN [p EXCEPT !.noNewItemsCounter = 0, !.previousResultCount = Len(p.allResults)]
    ELSE [p EXCEPT !.noNewItemsCounter = @ + 1]

\* `return allResults`, received by scrapeList as scrapeResults.
returnAllResults(p) == [p EXCEPT !.pc = "returned", !.scrapeResults = p.allResults]

\* After the break of a case: `if (checkLimit()) break;` and the next round.
afterBreak(p) ==
    IF limitReached(p)
    THEN returnAllResults(checkLimit(p))
    ELSE [p EXCEPT !.pc = "switch", !.rounds = @ + 1]

PaginationType == pag.config.pagination.type

\* scrapeList up to its first branch: ensureScriptsLoaded gives or raises.
ScrapeList ==
    /\ pag.pc = "idle"
    /\ \E loaded \in BOOLEAN :
        pag' = IF loaded
               THEN [pag EXCEPT !.pc = "loaded"]
               ELSE [pag EXCEPT !.pc = "rejected", !.raised = "ensureScriptsLoaded"]
    /\ UNCHANGED <<sPage, sState, sch, cos, matchVars, guardVars, interpVars, host>>

\* Without pagination: one evaluation of window.scrapeList, which may raise.
ScrapeOnce ==
    /\ pag.pc = "loaded"
    /\ pag.config.pagination = Null
    /\ \/ \E scrapeResults \in Lists :
            pag' = [pag EXCEPT !.pc = "returned", !.scrapeResults = scrapeResults]
       \/ pag' = [pag EXCEPT !.pc = "rejected", !.raised = "evaluate"]
    /\ UNCHANGED <<sPage, sState, sch, cos, matchVars, guardVars, interpVars, host>>

\* handlePagination up to its try: the split of line 663 is outside of it.
HandlePagination ==
    /\ pag.pc = "loaded"
    /\ pag.config.pagination # Null
    /\ pag' = IF pag.config.pagination.selector = Undefined
              THEN [pag EXCEPT !.pc = "rejected", !.raised = "handlePagination"]
              ELSE [pag EXCEPT !.pc = "switch",
                               !.availableSelectors = split(pag.config.pagination.selector)]
    /\ UNCHANGED <<sPage, sState, sch, cos, matchVars, guardVars, interpVars, host>>

ScrollDown ==
    /\ pag.pc = "switch"
    /\ PaginationType = "scrollDown"
    /\ \E currentHeight \in Heights :
        IF currentHeight = pag.previousHeight
        THEN \E finalResults \in Lists :
                pag' = returnAllResults([pag EXCEPT !.allResults = @ \o finalResults])
        ELSE /\ pag.rounds < MaxRounds
             /\ pag' = afterBreak([pag EXCEPT !.previousHeight = currentHeight])
    /\ UNCHANGED <<sPage, sState, sch, cos, matchVars, guardVars, interpVars, host>>

ScrollUp ==
    /\ pag.pc = "switch"
    /\ PaginationType = "scrollUp"
    /\ \E currentTopHeight \in Heights :
        IF currentTopHeight = 0
        THEN \E finalResults \in Lists :
                pag' = returnAllResults([pag EXCEPT !.allResults = @ \o finalResults])
        ELSE /\ pag.rounds < MaxRounds
             /\ pag' = afterBreak([pag EXCEPT !.previousHeight = currentTopHeight])
    /\ UNCHANGED <<sPage, sState, sch, cos, matchVars, guardVars, interpVars, host>>

\* One round of clickNext.  k is the selector findWorkingButton finds (0:
\* none); moved tells whether history.forward (k = 0) or the click (k > 0)
\* got to a new page within the retries.
\* The way one round of the clickNext case ends when the limit is not reached:
\* without a button, history.forward() is called and the round returns (line
\* 721) or breaks (line 722); with a button, the round returns when no click
\* advanced (line 817) and breaks when one did (line 820).
clickNextExit(k, moved) ==
    IF k = 0
    THEN IF moved THEN "forwardAdvanced" ELSE "forwardFailed"
    ELSE IF moved THEN "clickAdvanced" ELSE "clickStuck"

ClickNext ==
    /\ pag.pc = "switch"
    /\ PaginationType = "clickNext"
    /\ \E results \in Lists :
        LET scraped == scrapeCurrentPage(pag, results)
        IN  IF limitReached(scraped)
            THEN pag' = returnAllResults(checkLimit([scraped EXCEPT !.exit = "limit"]))
            ELSE \E k \in 0..Len(pag.availableSelectors), moved \in BOOLEAN :
                 \E misses \in (IF k = 0 THEN {0} ELSE 0..(MAX_RETRIES - 1)) :
                 LET found == findWorkingButton(scraped, k, misses)
                     left == [found EXCEPT !.exit = clickNextExit(k, moved)]
                 IN  IF ~moved
                     THEN pag' = returnAllResults(left)
                     ELSE /\ pag.rounds < MaxRounds
                          /\ pag' = afterBreak(left)
    /\ UNCHANGED <<sPage, sState, sch, cos, matchVars, guardVars, interpVars, host>>

\* clickLoadMore up to its inner loop.
ClickLoadMore ==
    /\ pag.pc = "switch"
    /\ PaginationType = "clickLoadMore"
    /\ \E results \in Lists :
        LET scraped == scrapeCurrentPage(pag, results)
        IN  pag' = IF limitReached(scraped)
                   THEN returnAllResults(checkLimit(scraped))
                   ELSE [scraped EXCEPT !.pc = "loadMore",
                                        !.previousResultCount = Len(scraped.allResults),
                                        !.noNewItemsCounter = 0]
    /\ UNCHANGED <<sPage, sState, sch, cos, matchVars, guardVars, interpVars, host>>

\* One round of the inner loop of clickLoadMore.
LoadMore ==
    /\ pag.pc = "loadMore"
    /\ \E k \in 0..Len(pag.availableSelectors) :
       \E misses \in (IF k = 0 THEN {0} ELSE 0..(MAX_RETRIES - 1)), clickSuccess \in BOOLEAN :
        LET found == findWorkingButton(pag, k, misses)
        IN  IF k = 0 \/ ~clickSuccess
            THEN pag' = returnAllResults(found)
            ELSE \E currentHeight \in Heights, results \in Lists :
                 LET heightChanged == currentHeight # pag.previousHeight
                     scraped == scrapeCurrentPage([found EXCEPT !.previousHeight = currentHeight],
                                                  results)
                     newItemsAdded == Len(scraped.allResults) > scraped.previousResultCount
                     counted == countNewItems(scraped)
                 IN  IF ~newItemsAdded /\ counted.noNewItemsCounter >= MAX_NO_NEW_ITEMS
                     THEN pag' = returnAllResults(counted)
                     ELSE IF limitReached(counted)
                          THEN pag' = returnAllResults(checkLimit(counted))
                          ELSE IF ~heightChanged
                               THEN pag' = returnAllResults(counted)
                               ELSE /\ pag.rounds < MaxRounds
                                    /\ pag' = [counted EXCEPT !.rounds = @ + 1]
    /\ UNCHANGED <<sPage, sState, sch, cos, matchVars, guardVars, interpVars, host>>

\* The default case: any other type.
ScrapeDefault ==
    /\ pag.pc = "switch"
    /\ PaginationType \notin {"scrollDown", "scrollUp", "clickNext", "clickLoadMore"}
    /\ \E results \in Lists :
        pag' = returnAllResults(scrapeCurrentPage(pag, results))
    /\ UNCHANGED <<sPage, sState, sch, cos, matchVars, guardVars, interpVars, host>>

\* A page operation inside the try raises: the catch returns allResults.
FatalError ==
    /\ pag.pc \in {"switch", "loadMore"}
    /\ pag' = returnAllResults(pag)
    /\ UNCHANGED <<sPage, sState, sch, cos, matchVars, guardVars, interpVars, host>>

\* scrapeList hands what it received to options.serializableCallback.
SerializableCallback ==
    /\ pag.pc = "returned"
    /\ pag' = [pag EXCEPT !.pc = "done", !.callbacks = Append(@, pag.scrapeResults)]
    /\ UNCHANGED <<sPage, sState, sch, cos, matchVars, guardVars, interpVars, host>>

InitPage ==
    /\ pag \in {newScrape(config) : config \in Configs}
    /\ sPage = Null /\ sState = Unset /\ sch = Null /\ cos = Null
    /\ mWorkflow = <<>> /\ mState = Null /\ mUsed = <<>> /\ mResult = Unset
    /\ gWhere = <<>> /\ gVerdict = "unset"
    /\ workflow = <<>>
    /\ maxRepeats = 5
    /\ maxConcurrency = 5
    /\ Idle
    /\ NoHost

NextPage ==
    \/ ScrapeList
    \/ ScrapeOnce
    \/ HandlePagination
    \/ ScrollDown
    \/ ScrollUp
    \/ ClickNext
    \/ ClickLoadMore
    \/ LoadMore
    \/ ScrapeDefault
    \/ FatalError
    \/ SerializableCallback

SpecPage == InitPage /\ [][NextPage]_vars

Paginated == pag.config.pagination # Null

(***************************************************************************)
(* C17: the limit.  Every list a scrapeList action with a pagination       *)
(* config and a limit L > 0 hands to serializableCallback has at most L    *)
(* records, whatever the pagination type.                                  *)
(***************************************************************************)
C17_Limit ==
    (Paginated /\ pag.config.limit > 0) =>
        \A i \in 1..Len(pag.callbacks) : Len(pag.callbacks[i]) <= pag.config.limit

(***************************************************************************)
(* C18: de-duplication.  The records of every list a paginated scrapeList  *)
(* action hands to serializableCallback are pairwise distinct by their     *)
(* JSON serialization, whatever the pagination type and whatever lists     *)
(* window.scrapeList returns on the successive pages.                      *)
(***************************************************************************)
PairwiseDistinct(list) ==
    \A a, b \in 1..Len(list) :
        a # b => JSONstringify(list[a]) # JSONstringify(list[b])

C18_Dedup ==
    Paginated => \A i \in 1..Len(pag.callbacks) : PairwiseDistinct(pag.callbacks[i])

(***************************************************************************)
(* C19: result delivery.  A scrapeList action calls serializableCallback   *)
(* at most once, and never while it is still loading its scripts or        *)
(* paginating; when it completes it has called it exactly once, with the   *)
(* list it received, which for a paginated action is the whole of          *)
(* allResults; when ensureScriptsLoaded, the extraction or                 *)
(* handlePagination raises, the action rejects without any call.           *)
(***************************************************************************)
InProgress == pag.pc \in {"idle", "loaded", "switch", "loadMore", "returned"}

C19_Delivery ==
    /\ Len(pag.callbacks) <= 1
    /\ InProgress => pag.callbacks = <<>>
    /\ pag.pc = "done" =>
        /\ pag.callbacks = <<pag.scrapeResults>>
        /\ Paginated => pag.scrapeResults = pag.allResults
    /\ pag.pc = "rejected" => (pag.callbacks = <<>> /\ pag.raised # "none")

\* C19 as the spec has it: every scrapeList action that is over has called
\* serializableCallback exactly once.
C19_ExactlyOnce ==
    pag.pc \in {"done", "rejected"} => Len(pag.callbacks) = 1

C19_Witness ==
    /\ pag.pc = "done"
    /\ Paginated
    /\ pag.rounds >= 1
    /\ Len(pag.callbacks) = 1
    /\ Len(pag.callbacks[1]) >= 2

(***************************************************************************)
(* C20: handlePagination never throws.  Whatever the pagination config and *)
(* whatever page operation fails, handlePagination returns the results it  *)
(* has accumulated: no scrapeList action rejects with an error raised by   *)
(* handlePagination.                                                       *)
(***************************************************************************)
C20_NeverThrows == pag.raised # "handlePagination"

(***************************************************************************)
(* scrapeSchema (lines 418-458).  An object is the sequence of its         *)
(* entries in Object.entries order; cumulativeResults is a list of         *)
(* one-key objects, each given by its entry.                               *)
(***************************************************************************)
MaxCalls == 3       \* how many scrapeSchema calls an interpreter gets

Fields == {"title", "price"}

FieldValues == {Str("a"), Str(""), Undefined}

ObjectOf(entries) == [kind |-> "object", entries |-> entries]

ArrayOf(items) == [kind |-> "array", items |-> items]

\* What window.scrapeSchema gives: one object, or an array of objects.
SchemaObjects ==
    {ObjectOf(<<>>)}
        \cup {ObjectOf(<<Entry(k, v)>>) : k \in Fields, v \in FieldValues}
        \cup {ObjectOf(<<Entry(kl[1], v), Entry(kl[2], w)>>) :
                kl \in {x \in Fields \X Fields : x[1] # x[2]},
                v \in FieldValues, w \in FieldValues}

OneFieldObjects == {ObjectOf(<<Entry(k, v)>>) : k \in Fields, v \in FieldValues}

SchemaResults ==
    SchemaObjects \cup {ArrayOf(<<>>)}
        \cup {ArrayOf(<<o, q>>) : o \in OneFieldObjects, q \in OneFieldObjects}

keyExists_Never(cumulativeResults, key) == FALSE

\* cumulativeResults.some(item => key in item && item[key] !== undefined)
keyExists(cumulativeResults, key) ==
    \E i \in 1..Len(cumulativeResults) :
        cumulativeResults[i].key = key /\ cumulativeResults[i].value # Undefined

\* Object.entries(result).forEach(...): push what has no defined value yet.
RECURSIVE pushEntries(_, _)
pushEntries(cumulativeResults, entries) ==
    IF entries = <<>> THEN cumulativeResults
    ELSE pushEntries(IF keyExists(cumulativeResults, Head(entries).key)
                     THEN cumulativeResults
                     ELSE Append(cumulativeResults, Head(entries)),
                     Tail(entries))

\* newResults.forEach(...)
RECURSIVE pushResults(_, _)
pushResults(cumulativeResults, newResultList) ==
    IF newResultList = <<>> THEN cumulativeResults
    ELSE pushResults(pushEntries(cumulativeResults, Head(newResultList).entries),
                     Tail(newResultList))

\* acc[key] = value
assign(acc, key, value) ==
    IF \E i \in 1..Len(acc) : acc[i].key = key
    THEN [i \in 1..Len(acc) |-> IF acc[i].key = key THEN Entry(key, value) ELSE acc[i]]
    ELSE Append(acc, Entry(key, value))

\* cumulativeResults.reduce(...): later defined values override earlier ones.
RECURSIVE reduceMerge(_, _)
reduceMerge(acc, cumulativeResults) ==
    IF cumulativeResults = <<>> THEN acc
    ELSE reduceMerge(IF Head(cumulativeResults).value # Undefined
                     THEN assign(acc, Head(cumulativeResults).key, Head(cumulativeResults).value)
                     ELSE acc,
                     Tail(cumulativeResults))

mergedResultOf(cumulativeResults) == <<ObjectOf(reduceMerge(<<>>, cumulativeResults))>>

\* Array.isArray(scrapeResult) ? scrapeResult : [scrapeResult]
newResultsOf(scrapeResult) ==
    IF scrapeResult.kind = "array" THEN scrapeResult.items ELSE <<scrapeResult>>

\* One scrapeSchema call that gets through: the buffer grows, the merged row
\* goes to serializableCallback.
ScrapeSchema ==
    /\ sch.calls < MaxCalls
    /\ \E scrapeResult \in SchemaResults :
        LET pushed == pushResults(sch.cumulativeResults, newResultsOf(scrapeResult))
        IN  sch' = [cumulativeResults |-> pushed,
                    calls |-> sch.calls + 1,
                    scrapeResult |-> scrapeResult,
                    callbacks |-> sch.callbacks + 1,
                    mergedResult |-> mergedResultOf(pushed),
                    raised |-> FALSE]
    /\ UNCHANGED <<sPage, sState, pag, cos, matchVars, guardVars, interpVars, host>>

\* ensureScriptsLoaded or page.evaluate raises: the call rejects.
ScrapeSchemaFail ==
    /\ sch.calls < MaxCalls
    /\ sch' = [sch EXCEPT !.calls = @ + 1, !.scrapeResult = Unset, !.raised = TRUE]
    /\ UNCHANGED <<sPage, sState, pag, cos, matchVars, guardVars, interpVars, host>>

InitSchema ==
    /\ sch = [cumulativeResults |-> <<>>, calls |-> 0, scrapeResult |-> Unset,
              callbacks |-> 0, mergedResult |-> <<>>, raised |-> FALSE]
    /\ sPage = Null /\ sState = Unset /\ pag = Null /\ cos = Null
    /\ mWorkflow = <<>> /\ mState = Null /\ mUsed = <<>> /\ mResult = Unset
    /\ gWhere = <<>> /\ gVerdict = "unset"
    /\ workflow = <<>>
    /\ maxRepeats = 5
    /\ maxConcurrency = 5
    /\ Idle
    /\ NoHost

NextSchema == ScrapeSchema \/ ScrapeSchemaFail

SpecSchema == InitSchema /\ [][NextSchema]_vars

(***************************************************************************)
(* C21: the cumulative buffer of scrapeSchema.  Every call that delivers   *)
(* hands serializableCallback exactly one row; a field that had a defined  *)
(* value in the row delivered before has the same value in it; and every   *)
(* field for which the call received a defined value has a defined value   *)
(* in it.  A call never delivers more than once.                           *)
(***************************************************************************)
\* The row of what was delivered last (nothing yet: no field).
RowOf(mergedResult) == IF mergedResult = <<>> THEN <<>> ELSE mergedResult[1].entries

FieldOf(row, key) == valueOf(row, key, 1)

Received(scrapeResult, key) ==
    \E i \in 1..Len(newResultsOf(scrapeResult)) :
        FieldOf(newResultsOf(scrapeResult)[i].entries, key) # Undefined

C21_Delivers ==
    /\ sch'.calls = sch.calls + 1
    /\ ~sch'.raised

LoopStarts(j) == loop[j].pc \in {"new", "opening"} /\ loop'[j].pc = "top"

C22_FreshFullCopy ==
    [][ \A j \in JobIds :
            LoopStarts(j) =>
                loop'[j].workflowCopy = WorkflowCopyOf(initializedWorkflow') ]_vars

(***************************************************************************)
(* C23: one body at a time, in order.  On the page of a loop a body starts *)
(* at its first action; while it is executing, the pair it belongs to and  *)
(* the workflow copy stay the same and its actions are taken one by one in *)
(* the order of the body; the loop leaves the body only when all its       *)
(* actions are over or one of them failed (the failure is logged).  So no  *)
(* action of another pair comes between two actions of a body.             *)
(***************************************************************************)
BodyOf(l) == l.workflowCopy[l.actionId.i + 1].what

HasUnknownOperator(where) ==
    \E i \in 1..Len(where) : where[i].key \in {"$xor", "$nor"}

C27_UnknownOperatorRaises ==
    (gVerdict # "unset" /\ HasUnknownOperator(gWhere)) => gVerdict = "E"

(***************************************************************************)
(* C24: the selector gating scenario.  With P1 (guard selectors #next,     *)
(* body click) followed by P2 (guard url matching the page after the       *)
(* click, body scrape), the first matching decision of the loop, taken on  *)
(* a page where #next is attached and whose URL is not that of P2, fires   *)
(* P1; P2 fires after it.                                                  *)
(***************************************************************************)
OnStartPage(j) ==
    /\ loop[j].pc = "state"
    /\ loop[j].usedActions = <<>>
    /\ loop'[j] = matchStep(loop[j],
                            getState("u1", {"#next"}, <<>>, loop[j].workflowCopy, loop[j].selectors),
                            maxRepeats)

C24_SelectorGating ==
    [][ (workflow = GatingScenario /\ OnStartPage(1)) =>
            /\ loop'[1].pc = "body"
            /\ loop'[1].workflowCopy[loop'[1].actionId.i + 1].id = Str("P1") ]_vars

(***************************************************************************)
(* carryOutSteps (lines 521-560), step by step, with the calls it makes on *)
(* the page.  A call is the step it belongs to, what is called (the retry  *)
(* of click is "click:force", that of waitForLoadState is                  *)
(* "waitForLoadState:domcontentloaded") and whether it went through.       *)
(***************************************************************************)
MaxSteps == 3       \* the longest body

StepActions == {"click", "waitForLoadState", "goto", "scrape"}

Bodies == UNION {[1..n -> StepActions] : n \in 0..MaxSteps}

Call(i, what, ok) == [step |-> i, call |-> what, ok |-> ok]

\* One step of the for loop went through: the 500 ms pause, then the next step.
stepOver(c, made) == [c EXCEPT !.i = @ + 1, !.calls = @ \o made]

\* The step raised: carryOutSteps rejects.
stepRaised(c, made) == [c EXCEPT !.pc = "rejected", !.calls = @ \o made]

\* `continue` after the second failure of click: on to the next step.
clickGivenUp(c, made) == [c EXCEPT !.i = @ + 1, !.calls = @ \o made]

AtStep(action) ==
    /\ cos.pc = "running"
    /\ cos.i <= Len(cos.steps)
    /\ cos.steps[cos.i] = action

\* Lines 545-554: click, its retry with {force: true}, and `continue`.
CarryClick ==
    /\ AtStep("click")
    /\ \/ cos' = stepOver(cos, <<Call(cos.i, "click", TRUE)>>)
       \/ cos' = stepOver(cos, <<Call(cos.i, "click", FALSE), Call(cos.i, "click:force", TRUE)>>)
       \/ cos' = clickGivenUp(cos, <<Call(cos.i, "click", FALSE), Call(cos.i, "click:force", FALSE)>>)
    /\ UNCHANGED <<sPage, sState, pag, sch, matchVars, guardVars, interpVars, host>>

\* Lines 539-544: waitForLoadState and its retry with 'domcontentloaded'.
CarryWaitForLoadState ==
    /\ AtStep("waitForLoadState")
    /\ \/ cos' = stepOver(cos, <<Call(cos.i, "waitForLoadState", TRUE)>>)
       \/ cos' = stepOver(cos, <<Call(cos.i, "waitForLoadState", FALSE),
                                 Call(cos.i, "waitForLoadState:domcontentloaded", TRUE)>>)
       \/ cos' = stepRaised(cos, <<Call(cos.i, "waitForLoadState", FALSE),
                                   Call(cos.i, "waitForLoadState:domcontentloaded", FALSE)>>)
    /\ UNCHANGED <<sPage, sState, pag, sch, matchVars, guardVars, interpVars, host>>

\* Lines 524-527 and 555-556: a custom action or any other method of the page.
CarryOther ==
    /\ \E action \in StepActions \ {"click", "waitForLoadState"} :
        /\ AtStep(action)
        /\ \/ cos' = stepOver(cos, <<Call(cos.i, action, TRUE)>>)
           \/ cos' = stepRaised(cos, <<Call(cos.i, action, FALSE)>>)
    /\ UNCHANGED <<sPage, sState, pag, sch, matchVars, guardVars, interpVars, host>>

\* The for loop is over: carryOutSteps resolves.
CarryResolve ==
    /\ cos.pc = "running"
    /\ cos.i > Len(cos.steps)
    /\ cos' = [cos EXCEPT !.pc = "resolved"]
    /\ UNCHANGED <<sPage, sState, pag, sch, matchVars, guardVars, interpVars, host>>

InitSteps ==
    /\ cos \in {[steps |-> b, i |-> 1, calls |-> <<>>, pc |-> "running"] : b \in Bodies}
    /\ sPage = Null /\ sState = Unset /\ pag = Null /\ sch = Null
    /\ mWorkflow = <<>> /\ mState = Null /\ mUsed = <<>> /\ mResult = Unset
    /\ gWhere = <<>> /\ gVerdict = "unset"
    /\ workflow = <<>>
    /\ maxRepeats = 5
    /\ maxConcurrency = 5
    /\ Idle
    /\ NoHost

NextSteps == CarryClick \/ CarryWaitForLoadState \/ CarryOther \/ CarryResolve

SpecSteps == InitSteps /\ [][NextSteps]_vars

(***************************************************************************)
(* C25: the click failure policy.  When a click and its retry with         *)
(* {force: true} have both failed, no later action of that body is         *)
(* executed, and carryOutSteps does not raise because of it.               *)
(***************************************************************************)
ClickFailedTwice(k) == cos.calls[k].call = "click:force" /\ ~cos.calls[k].ok

C25_ClickFailureSkipsBody ==
    \A k \in 1..Len(cos.calls) :
        ClickFailedTwice(k) =>
            /\ \A m \in 1..Len(cos.calls) : m <= k
            /\ cos.pc # "rejected"

(***************************************************************************)
(* C26: a failing action.  When an action of a body other than click or    *)
(* waitForLoadState fails, no further action of that body is executed,     *)
(* the error is logged, the fired ids and the workflow copy stay as they   *)
(* were, and the loop goes back to its top for the next iteration instead  *)
(* of ending.                                                              *)
(***************************************************************************)
ActionFails(j) ==
    /\ loop[j].pc = "body"
    /\ loop[j].step <= Len(BodyOf(loop[j]))
    /\ BodyOf(loop[j])[loop[j].step] \notin {"click", "waitForLoadState"}
    /\ loop'[j].pc # "body"

C26_FailureLoggedLoopGoesOn ==
    [][ \A j \in JobIds :
            ActionFails(j) =>
                /\ loop'[j].logged = loop[j].logged + 1
                /\ loop'[j].usedActions = loop[j].usedActions
                /\ loop'[j].workflowCopy = loop[j].workflowCopy
                /\ loop'[j].pc = "top"
                /\ loop'[j].step = 0
                /\ loop'[j].exit = "" ]_vars

C26_Witness ==
    /\ loop[1].logged = 1
    /\ loop[1].pc = "body"
    /\ loop[1].execs = 2
    /\ loop[1].usedActions = <<>>
    /\ BodyOf(loop[1]) = <<"click", "goto">>
    /\ loop[1].step = 2

\* ---------------------------------------------------------------------------
\* clickLoadMore: when the click loop returns.

\* A step of the clickLoadMore loop in which the button was clicked: the step
\* went on to count the items (lines 897-910).
LoadMoreClicked ==
    /\ pag.pc = "loadMore"
    /\ \/ pag'.noNewItemsCounter = pag.noNewItemsCounter + 1
       \/ pag'.previousResultCount > pag.previousResultCount

ClickAddedItems == Len(pag'.allResults) > Len(pag.allResults)

ReturnsAccumulated == pag'.pc = "returned" /\ pag'.scrapeResults = pag'.allResults

\* C28: in the clickLoadMore loop, a click after which the measured scroll
\* height equals the height measured before returns the accumulated list; a
\* click that adds no new items counts one more, and the second such click in a
\* row returns the accumulated list; a click that adds new items sets the count
\* of clicks without new items back to zero.
C28_LoadMoreTermination ==
    [][LoadMoreClicked =>
          /\ (pag'.previousHeight = pag.previousHeight => ReturnsAccumulated)
          /\ (~ClickAddedItems => pag'.noNewItemsCounter = pag.noNewItemsCounter + 1)
          /\ (~ClickAddedItems /\ pag.noNewItemsCounter + 1 >= MAX_NO_NEW_ITEMS
                 => ReturnsAccumulated)
          /\ (ClickAddedItems => pag'.noNewItemsCounter = 0)
          /\ (pag'.pc = "loadMore" => pag'.noNewItemsCounter < MAX_NO_NEW_ITEMS)]_vars

\* Two clicks in a row added nothing while the page kept growing, and the list
\* scraped before them was returned.
C28_Witness ==
    /\ pag.pc = "returned"
    /\ Paginated
    /\ PaginationType = "clickLoadMore"
    /\ pag.noNewItemsCounter = MAX_NO_NEW_ITEMS
    /\ pag.previousHeight = 200
    /\ Len(pag.scrapeResults) = 1

\* ---------------------------------------------------------------------------
\* findWorkingButton: the search for the pagination button.

\* The attempts of the last search on one selector, and those that raised.
AttemptsOn(p, selector) == SelectSeq(p.attempts, LAMBDA a : a.selector = selector)

FailuresOn(p, selector) == SelectSeq(p.attempts, LAMBDA a : a.selector = selector /\ ~a.ok)

\* The place of a selector in the list of config.pagination.selector.
PlaceOf(p, selector) ==
    CHOOSE i \in 1..Len(split(p.config.pagination.selector)) :
        split(p.config.pagination.selector)[i] = selector

Searching == pag.pc \in {"switch", "loadMore"} /\ pag'.attempts # pag.attempts

\* C29: a search tries the candidate selectors in list order, each at most
\* MAX_RETRIES = 3 times; a selector whose three attempts all failed is absent
\* from the candidate list afterwards, the others stay in it in their order,
\* and a later search only tries selectors that are still candidates.
C29_ButtonSearch ==
    [][(Paginated' /\ pag'.pc \in {"switch", "loadMore", "returned"}) =>
          /\ \A i, j \in 1..Len(pag'.attempts) :
                i < j => PlaceOf(pag', pag'.attempts[i].selector)
                            <= PlaceOf(pag', pag'.attempts[j].selector)
          /\ \A s \in Range(pag'.attempts) :
                /\ Len(AttemptsOn(pag', s.selector)) <= MAX_RETRIES
                /\ Len(FailuresOn(pag', s.selector)) = MAX_RETRIES
                      => s.selector \notin Range(pag'.availableSelectors)
          /\ Searching =>
                /\ \A s \in Range(pag'.attempts) : s.selector \in Range(pag.availableSelectors)
                /\ pag'.availableSelectors =
                      SelectSeq(pag.availableSelectors,
                                LAMBDA s : Len(FailuresOn(pag', s)) < MAX_RETRIES)
          /\ (pag.pc \in {"switch", "loadMore"} /\ ~Searching)
                => pag'.availableSelectors = pag.availableSelectors]_vars

\* ".bad" failed three times and was dropped in an earlier round; the search of
\* this round tried ".next" alone.
C29_Witness ==
    /\ Paginated
    /\ pag.pc \in {"switch", "loadMore"}
    /\ split(pag.config.pagination.selector) = <<".bad", ".next">>
    /\ pag.availableSelectors = <<".next">>
    /\ pag.attempts = <<Attempt(".next", FALSE), Attempt(".next", TRUE)>>

\* ---------------------------------------------------------------------------
\* clickNext: the fallback to history.forward().

\* A round of clickNext in which no candidate selector gave a button that
\* advanced: no button attached, or the clicks on the button did not advance.
NoSelectorAdvanced ==
    /\ pag.pc = "switch"
    /\ PaginationType = "clickNext"
    /\ pag' # pag
    /\ pag'.exit \in {"forwardFailed", "forwardAdvanced", "clickStuck"}

ForwardAttempted == pag'.exit \in {"forwardFailed", "forwardAdvanced"}

\* C30: a round of clickNext in which no candidate selector gives a button
\* that advances calls history.forward() and then ends the pagination with the
\* accumulated results.
C30_ForwardThenTerminate ==
    [][NoSelectorAdvanced => (ForwardAttempted /\ ReturnsAccumulated)]_vars

\* ---------------------------------------------------------------------------
\* The candidate selectors of a page loop.

\* The selectors of the last pair of a workflow copy that has any.
LastSelectorSet(wf) ==
    LET withSelectors == {i \in 1..Len(wf) : selectorsOf(wf[i].where) # <<>>}
    IN  IF withSelectors = {} THEN {}
        ELSE Range(selectorsOf(wf[CHOOSE i \in withSelectors : \A k \in withSelectors : k <= i].where))

Extraction(j) == loop[j].pc = "state" /\ loop'[j].pc # "state"

Firing(j) == BodyOver(j) /\ Len(loop'[j].usedActions) = Len(loop[j].usedActions) + 1

LastPairAsksUrl ==
    /\ sState # Unset
    /\ Len(mWorkflow) > 0
    /\ HasKey(LastWhere, "url")
    /\ lookup(LastWhere, "url", 1) # Str("about:blank")

LastUrlHolds == inclusive("url", lookup(LastWhere, "url", 1), sState)

InLoop(l) == l.pc \in {"top", "load", "state", "body"}

\* `shorter` is `longer` without one of its pairs.
OnePairLess(shorter, longer) == \E k \in 1..Len(longer) : shorter = RemoveAt(longer, k)

\* C36: in a page loop a body that completes takes its pair out of the workflow
\* copy for good: every step of the loop leaves the copy as it is or removes
\* the one pair whose body has just completed, no pair is in the copy twice,
\* and the completed bodies and the pairs left together are never more than
\* the pairs of the workflow.
C36_FiresAtMostOnce ==
    [][\A j \in JobIds : (InLoop(loop[j]) /\ InLoop(loop'[j])) =>
          /\ IF Len(loop'[j].usedActions) = Len(loop[j].usedActions)
             THEN loop'[j].workflowCopy = loop[j].workflowCopy
             ELSE /\ Len(loop'[j].usedActions) = Len(loop[j].usedActions) + 1
                  /\ OnePairLess(loop'[j].workflowCopy, loop[j].workflowCopy)
                  /\ \A k \in 1..Len(loop'[j].workflowCopy) :
                        loop'[j].workflowCopy[k].ref # Fired(j).ref
          /\ \A m, n \in 1..Len(loop'[j].workflowCopy) :
                m # n => loop'[j].workflowCopy[m].ref # loop'[j].workflowCopy[n].ref
          /\ Len(loop'[j].usedActions) + Len(loop'[j].workflowCopy) <= Len(workflow)]_vars

\* Each of the three pairs has completed its body once and the copy is empty.
C36_Witness ==
    /\ workflow = SelectorScenario
    /\ loop[1].pc = "top"
    /\ loop[1].usedActions = <<"go", "s2", "s1">>
    /\ loop[1].workflowCopy = <<>>

\* ---------------------------------------------------------------------------
\* SpecLive: the iterations of one page loop, with no end put to them.  What
\* the activation has done so far (execs, consec, logged) is not recorded, and
\* with maxRepeats = 0, where line 1065 never reads repeatCount, neither is
\* repeatCount: a loop that goes on for ever is a cycle of states.

\* Two pairs whose bodies raise; the second is matched on a blank page, the
\* first on u1.
AlternatingScenario ==
    <<Pair(Str("a"), <<Entry("url", Str("u1"))>>, <<"noop">>),
      Pair(Str("b"), <<Entry("url", Str("about:blank"))>>, <<"noop">>)>>

LiveWorkflows == LoopWorkflows \cup {AlternatingScenario}

iteration(l, limit) ==
    [l EXCEPT !.execs = 0, !.consec = 0, !.logged = 0,
              !.repeatCount = IF limit = 0 THEN 0 ELSE @]

InitLive ==
    /\ workflow \in LiveWorkflows
    /\ maxRepeats \in RepeatOptions
    /\ maxConcurrency = 5
    /\ stopper = TRUE
    /\ initializedWorkflow = initWorkflow(workflow)
    /\ runs = [r \in RunIds |-> IF r = 1 THEN "waiting" ELSE "idle"]
    /\ thrown = Null
    /\ job = [j \in JobIds |->
                IF j = 1 THEN [NoJob EXCEPT !.status = "running", !.during = {1}]
                ELSE NoJob]
    /\ loop = [j \in JobIds |-> IF j = 1 THEN runLoopStart(NoLoop, initWorkflow(workflow)) ELSE NoLoop]
    /\ closed = [j \in JobIds |-> FALSE]
    /\ mWorkflow = <<>> /\ mState = Null /\ mUsed = <<>> /\ mResult = Unset
    /\ gWhere = <<>> /\ gVerdict = "unset"
    /\ FuncIdle
    /\ NoHost

\* The loop of job 1 goes on to `next`.
GoesOn(next) ==
    /\ loop' = [loop EXCEPT ![1] = iteration(next, maxRepeats)]
    /\ UNCHANGED <<workflow, maxRepeats, maxConcurrency, stopper, initializedWorkflow, runs,
                   thrown, job, matchVars, guardVars, funcVars, host>>

\* Lines 1013-1015.
IterTop == loop[1].pc = "top" /\ GoesOn(loopTop(loop[1], closed[1], stopper)) /\ UNCHANGED closed

\* Lines 1017-1022.
IterLoad ==
    /\ loop[1].pc = "load"
    /\ \/ GoesOn([loop[1] EXCEPT !.pc = "state"]) /\ UNCHANGED closed
       \/ GoesOn(leave(loop[1], "load")) /\ closed' = [closed EXCEPT ![1] = TRUE]

\* Lines 1024-1068, on any page.
IterObserve ==
    /\ loop[1].pc = "state"
    /\ \E liveUrl \in Urls \cup {"about:blank"}, attached \in SUBSET Range(loop[1].selectors) :
          GoesOn(matchStep(loop[1],
                           getState(liveUrl, attached, <<>>, loop[1].workflowCopy, loop[1].selectors),
                           maxRepeats))
    /\ UNCHANGED closed

\* Lines 1030-1033.
IterObserveFail == loop[1].pc = "state" /\ GoesOn(leave(loop[1], "state")) /\ UNCHANGED closed

\* carryOutSteps: a step of the body goes through or raises (lines 1085-1087).
IterStep ==
    /\ loop[1].pc = "body"
    /\ loop[1].step <= Len(BodyOf(loop[1]))
    /\ \/ "next" \in stepOutcomes(CurrentStep(1)) /\ GoesOn(nextStep(loop[1]))
       \/ "throw" \in stepOutcomes(CurrentStep(1)) /\ GoesOn(bodyFailed(loop[1]))
    /\ UNCHANGED closed

\* Lines 1073-1084.
IterBodyDone ==
    /\ loop[1].pc = "body"
    /\ loop[1].step > Len(BodyOf(loop[1]))
    /\ GoesOn(bodyDone(loop[1]))
    /\ UNCHANGED closed

NextLive == IterTop \/ IterLoad \/ IterObserve \/ IterObserveFail \/ IterStep \/ IterBodyDone

\* Every await of the loop settles: the loop takes its next step.
SpecLive == InitLive /\ [][NextLive]_vars /\ WF_vars(NextLive)

\* C37: every page loop reaches one of its exits, whatever the workflow, the
\* limit and the page.
C37_EveryLoopTerminates == <>(~InLoop(loop[1]))

\* ---------------------------------------------------------------------------
\* What concurrent page loops see of each other.

\* The data a page loop writes: its copy, the fired ids, the candidate
\* selectors and the repeat count.
LocalsOf(l) == <<l.workflowCopy, l.usedActions, l.selectors, l.repeatCount>>

WritesLocals(i) ==
    InLoop(loop[i]) /\ InLoop(loop'[i]) /\ LocalsOf(loop'[i]) # LocalsOf(loop[i])

\* A step in which loop i writes leaves the data of every other running loop
\* as it was.
OthersUntouched ==
    \A i, j \in JobIds :
        (i # j /\ WritesLocals(i) /\ InLoop(loop[j]) /\ InLoop(loop'[j]))
            => LocalsOf(loop'[j]) = LocalsOf(loop[j])

\* A loop that starts while another loop has removed pairs from its copy
\* starts with all the pairs of the initialized workflow.
StartsUnaffected ==
    \A i, j \in JobIds :
        (i # j /\ LoopStarts(j) /\ loop[i].usedActions # <<>>)
            => Len(loop'[j].workflowCopy) = Len(initializedWorkflow)

\* C32: no write of one page loop (pair removal, fired ids, candidate
\* selectors, repeat count) is seen by another page loop, neither while both
\* run nor when the other one starts.
C32_NoSharedWrites == [][OthersUntouched /\ StartsUnaffected]_vars

\* ---------------------------------------------------------------------------
\* enqueueLinks.

\* The enqueueLinks step of loop j went through.
Enqueued(j) ==
    /\ loop[j].pc = "body"
    /\ loop[j].step <= Len(BodyOf(loop[j]))
    /\ CurrentStep(j) = "enqueueLinks"
    /\ loop'[j].pc = "body"
    /\ loop'[j].step = loop[j].step + 1

\* The jobs submitted in this step: waiting in the pool as link jobs of j, or
\* already opening their page.
SubmittedBy(j) ==
    {q \in JobIds :
        /\ job[q].status = "none"
        /\ \/ job'[q].status = "queued" /\ job'[q].kind = "link" /\ job'[q].parent = j
           \/ job'[q].status = "running" /\ loop'[q].pc = "opening"}

Submitted == {q \in JobIds : job[q].status = "none" /\ job'[q].status # "none"}

HostWorkflows ==
    { << <<"flag", "scrapeSchema">>, <<"screenshot", "flag">> >>,
      << <<"scrapeSchema", "screenshot", "scrapeSchema", "screenshot">> >>,
      << <<"scrapeSchema", "flag", "scrapeSchema">> >> }

\* The `breakpoints` arrays the client sends, as the set of the indexes holding true.
BreakpointArrays == SUBSET {0, 1}

\* Lines 69-110: the fields as declared; no Interpreter yet.
newHost(w) ==
    [interpretationIsPaused |-> FALSE,
     interpreter |-> FALSE,            \* this.interpreter !== null
     activeId |-> Null,
     serializableData |-> <<>>,
     binaryData |-> <<>>,
     breakpoints |-> {},
     interpretationResume |-> 0,       \* the promise `resume` resolves; 0: null
     call |-> "none",                  \* the Interpret... call: "none", "awaiting", "completed", "threw"
     mode |-> "none",                  \* "editor": interpretRecordingInEditor, "recording": InterpretRecording
     result |-> Null,                  \* what InterpretRecording returned
     stopper |-> FALSE,                \* the core Interpreter's stopper is set
     run |-> "none",                   \* run(): "none", "scripts", "top", "body", "flag", "done", "returned", "threw"
     workflowCopy |-> w,               \* the bodies of the pairs still in runLoop's copy
     actionId |-> 0,                   \* the place (1-based) of the pair being carried out
     what |-> <<>>,                    \* the steps left of its body
     promises |-> 0,                   \* the promises `flag` steps created; the last one may be pending
     delivered |-> 0,                  \* the payloads delivered; each payload is named by its number
     event |-> "none",                 \* the handler that ran last
     stopCalled |-> FALSE,             \* stopInterpretation found an Interpreter
     sentSerializable |-> <<>>,        \* every payload given to serializableCallback, in order
     sentBinary |-> <<>>]              \* every payload given to binaryCallback, in order

\* JSON.stringify(data), line 287.
stringify(data) == [json |-> data]

\* `resume` of the promise k (part_001 lines 498-500): resolving the pending
\* promise lets the body go on; resolving a settled one does nothing.
resume(h, k) ==
    IF h.run = "flag" /\ h.promises = k THEN [h EXCEPT !.run = "body"] ELSE h

\* Mutant: the handler looks at the paused flag only, never at the breakpoints.
flagHandler_NoBreakpoints(h) ==
    IF h.interpretationIsPaused
    THEN [h EXCEPT !.interpretationResume = h.promises]
    ELSE resume(h, h.promises)

\* interpreter.on('flag', ...), lines 196-211 and 295-310; `resume` is of promise h.promises.
flagHandler(h) ==
    LET hit == h.activeId # Null /\ h.activeId.i \in h.breakpoints
        h1 == IF hit THEN [h EXCEPT !.interpretationIsPaused = TRUE] ELSE h
    IN IF h1.interpretationIsPaused
       THEN [h1 EXCEPT !.interpretationResume = h.promises]
       ELSE resume(h1, h.promises)

\* socket.on('pause'), lines 128-130.
onPause(h) == [h EXCEPT !.interpretationIsPaused = TRUE]

\* socket.on('resume'), lines 131-139.
onResume(h) ==
    LET h1 == [h EXCEPT !.interpretationIsPaused = FALSE]
    IN IF h.interpretationResume # 0 THEN resume(h1, h.interpretationResume) ELSE h1

\* socket.on('step'), lines 140-146.
onStep(h) ==
    IF h.interpretationResume # 0 THEN resume(h, h.interpretationResume) ELSE h

\* socket.on('breakpoints'), lines 147-150.
onBreakpoints(h, data) == [h EXCEPT !.breakpoints = data]

\* clearState, lines 242-251.
clearState(h) ==
    [h EXCEPT !.interpretationIsPaused = FALSE,
              !.activeId = Null,
              !.interpreter = FALSE,
              !.breakpoints = {},
              !.interpretationResume = 0,
              !.serializableData = <<>>,
              !.binaryData = <<>>]

\* stopInterpretation, lines 231-240, with Interpreter.stop (part_001 lines
\* 1148-1155): stop() throws when the stopper is not set, and then clearState
\* is not reached.
stopInterpretation(h) ==
    IF h.interpreter
    THEN IF h.stopper
         THEN clearState([h EXCEPT !.stopper = FALSE, !.stopCalled = TRUE])
         ELSE [h EXCEPT !.stopCalled = TRUE]
    ELSE h

\* Lines 314-316.
lastArray(data) == IF Len(data) > 1 THEN <<data[Len(data)]>> ELSE data

\* array.reduce((o, item, index) => ({[`item-${index}`]: item, ...o}), {}),
\* lines 321-332: the object's properties in their order, the key item-<index>
\* given as its index; each new key is put before those already there.
reduceToObject(array) ==
    [n \in 1..Len(array) |-> [key |-> Len(array) - n, value |-> array[Len(array) - n + 1]]]

\* Lines 318-333: the value InterpretRecording returns.
resultOf(h) ==
    [serializableOutput |-> reduceToObject(lastArray(h.serializableData)),
     binaryOutput |-> reduceToObject(h.binaryData)]

\* serializableCallback: lines 185-187 (editor, emits only), 282-285 (recording).
serializableCallback(h, data) ==
    LET h1 == [h EXCEPT !.sentSerializable = Append(@, data)]
    IN IF h.mode = "recording"
       THEN [h1 EXCEPT !.serializableData = Append(@, data)]
       ELSE h1

\* binaryCallback: lines 188-190 (editor, emits only), 286-289 (recording).
binaryCallback(h, data, mimetype) ==
    LET h1 == [h EXCEPT !.sentBinary = Append(@, [mimetype |-> mimetype, data |-> stringify(data)])]
    IN IF h.mode = "recording"
       THEN [h1 EXCEPT !.binaryData = Append(@, [mimetype |-> mimetype, data |-> stringify(data)])]
       ELSE h1

After(h, event) == host' = [h EXCEPT !.event = event]

HostUnchanged ==
    UNCHANGED <<matchVars, guardVars, funcVars, interpVars>>

InitHost ==
    /\ host \in {newHost(w) : w \in HostWorkflows}
    /\ FuncIdle
    /\ mWorkflow = <<>> /\ mState = Null /\ mUsed = <<>> /\ mResult = Unset
    /\ gWhere = <<>> /\ gVerdict = "unset"
    /\ workflow = <<>>
    /\ maxRepeats = 5
    /\ maxConcurrency = 5
    /\ stopper = FALSE
    /\ initializedWorkflow = Null
    /\ runs = [r \in RunIds |-> "idle"]
    /\ thrown = Null
    /\ job = [j \in JobIds |-> NoJob]
    /\ loop = [j \in JobIds |-> NoLoop]
    /\ closed = [j \in JobIds |-> FALSE]

\* interpretRecordingInEditor, lines 162-215, and InterpretRecording, lines
\* 259-312: the Interpreter is created and kept, and run() is called; run()
\* goes as far as awaiting ensureScriptsLoaded (part_001 line 1135).
Interpret(mode) ==
    /\ host.call = "none"
    /\ After([host EXCEPT !.mode = mode, !.interpreter = TRUE,
                          !.call = "awaiting", !.run = "scripts"], mode)
    /\ HostUnchanged

\* run(), part_001 lines 1135-1141: the scripts are loaded, the stopper is set
\* and the loop is submitted.
HostRunStart ==
    /\ host.run = "scripts"
    /\ After([host EXCEPT !.stopper = TRUE, !.run = "top"], "core")
    /\ HostUnchanged

\* run(), part_001 line 1135: ensureScriptsLoaded rejects, run() rejects and
\* so does the wrapper's call (lines 215, 312: no catch).
HostRunScriptsFail ==
    /\ host.run = "scripts"
    /\ After([host EXCEPT !.run = "threw", !.call = "threw"], "core")
    /\ HostUnchanged

\* runLoop at the top of an iteration (part_001 lines 983-1059): it returns
\* when the stopper is gone or no pair matches; else a pair of the copy
\* matches and its place is told to debugChannel.activeId (lines 176-179,
\* 272-275).
HostLoopTop ==
    /\ host.run = "top"
    /\ \/ After([host EXCEPT !.run = "done"], "core")
       \/ /\ host.stopper
          /\ \E a \in 1..Len(host.workflowCopy) :
                After([host EXCEPT !.activeId = Idx(a - 1), !.actionId = a,
                                   !.what = host.workflowCopy[a], !.run = "body"], "core")
    /\ HostUnchanged

\* carryOutSteps on a `flag` step (part_001 lines 498-500): a promise is
\* created and 'flag' is emitted with its resolver; the wrapper's handler runs
\* within the emit.
HostFlag ==
    /\ host.run = "body"
    /\ host.what # <<>>
    /\ Head(host.what) = "flag"
    /\ After(flagHandler([host EXCEPT !.promises = @ + 1, !.what = Tail(@), !.run = "flag"]), "flag")
    /\ HostUnchanged

\* carryOutSteps on a step that delivers a serializable payload (part_001 lines 415-478).
HostSerializable ==
    /\ host.run = "body"
    /\ host.what # <<>>
    /\ Head(host.what) = "scrapeSchema"
    /\ After(serializableCallback([host EXCEPT !.delivered = @ + 1, !.what = Tail(@)],
                                  host.delivered + 1), "core")
    /\ HostUnchanged

\* carryOutSteps on a screenshot step (part_001 line 383).
HostBinary ==
    /\ host.run = "body"
    /\ host.what # <<>>
    /\ Head(host.what) = "screenshot"
    /\ After(binaryCallback([host EXCEPT !.delivered = @ + 1, !.what = Tail(@)],
                            host.delivered + 1, "image/png"), "core")
    /\ HostUnchanged

\* The body is done: the pair leaves the copy (part_001 lines 1073-1075).
HostBodyDone ==
    /\ host.run = "body"
    /\ host.what = <<>>
    /\ After([host EXCEPT !.workflowCopy = SubSeq(@, 1, host.actionId - 1)
                                           \o SubSeq(@, host.actionId + 1, Len(@)),
                          !.actionId = 0, !.run = "top"], "core")
    /\ HostUnchanged

\* run() returns (part_001 lines 1143-1145) and interpretRecordingInEditor
\* goes on, lines 217-225.
HostEditorFinished ==
    /\ host.run = "done"
    /\ host.mode = "editor"
    /\ After([host EXCEPT !.stopper = FALSE, !.run = "returned",
                          !.interpreter = FALSE,
                          !.interpretationIsPaused = FALSE,
                          !.interpretationResume = 0,
                          !.call = "completed"], "finished")
    /\ HostUnchanged

\* run() returns (part_001 lines 1143-1145) and InterpretRecording goes on,
\* lines 314-337.
HostRecordingFinished ==
    /\ host.run = "done"
    /\ host.mode = "recording"
    /\ After(clearState([host EXCEPT !.stopper = FALSE, !.run = "returned",
                                     !.result = resultOf(host),
                                     !.call = "completed"]), "finished")
    /\ HostUnchanged

SocketPause == After(onPause(host), "pause") /\ HostUnchanged

SocketResume == After(onResume(host), "resume") /\ HostUnchanged

SocketStep == After(onStep(host), "step") /\ HostUnchanged

SocketBreakpoints ==
    /\ \E data \in BreakpointArrays : After(onBreakpoints(host, data), "breakpoints")
    /\ HostUnchanged

StopInterpretation == After(stopInterpretation(host), "stop") /\ HostUnchanged

\* What the program does by itself.
HostProgress ==
    \/ HostRunStart
    \/ HostRunScriptsFail
    \/ HostLoopTop
    \/ HostFlag
    \/ HostSerializable
    \/ HostBinary
    \/ HostBodyDone
    \/ HostEditorFinished
    \/ HostRecordingFinished

NextHost ==
    \/ Interpret("editor")
    \/ Interpret("recording")
    \/ HostProgress
    \/ SocketPause
    \/ SocketResume
    \/ SocketStep
    \/ SocketBreakpoints
    \/ StopInterpretation

SpecHost == InitHost /\ [][NextHost]_vars


(***************************************************************************)
(* C34: when a `flag` event arrives while the interpretation is paused, or *)
(* a breakpoint is set for the active pair id, the resume callback is kept *)
(* and not called, and the body stays suspended until a 'resume' or 'step' *)
(* socket event; when neither holds, resume is called at once and the body *)
(* goes on. 'step' calls the kept callback and leaves the paused state as  *)
(* it is; 'resume' calls it and leaves the paused state.                   *)
(***************************************************************************)
Withheld(h) ==
    h.interpretationIsPaused \/ (h.activeId # Null /\ h.activeId.i \in h.breakpoints)

FlagArrives == host.run = "body" /\ host'.event = "flag" /\ host'.promises = host.promises + 1

KeptIsPending(h) == h.run = "flag" /\ h.interpretationResume = h.promises

C34_PauseProtocol ==
    [][/\ FlagArrives /\ Withheld(host) =>
              /\ host'.run = "flag"
              /\ host'.interpretationResume = host'.promises
              /\ host'.interpretationIsPaused
       /\ FlagArrives /\ ~Withheld(host) =>
              /\ host'.run = "body"
              /\ host'.interpretationResume = host.interpretationResume
       /\ host.run = "flag" /\ host'.run # "flag" => host'.event \in {"resume", "step"}
       /\ host'.event = "step" =>
              /\ host'.interpretationIsPaused = host.interpretationIsPaused
              /\ KeptIsPending(host) => host'.run = "body"
       /\ host'.event = "resume" =>
              /\ ~host'.interpretationIsPaused
              /\ KeptIsPending(host) => host'.run = "body"]_vars

\* A 'step' event let a suspended body go on, and the interpretation is still paused.
C34_Witness ==
    /\ host # Null
    /\ host.event = "step"
    /\ host.run = "body"
    /\ host.promises = 1
    /\ host.interpretationIsPaused


\* The run and the wrapper's continuation take their steps whenever they can
\* (the event loop runs every continuation that is ready), and the client
\* keeps sending 'resume'.
SpecHostLive ==
    InitHost /\ [][NextHost]_vars /\ WF_vars(HostProgress) /\ WF_vars(SocketResume)

(***************************************************************************)
(* C38: once stopInterpretation was called while an interpretation was in  *)
(* progress (also while the body is suspended at a `flag`), run()          *)
(* eventually returns and the wrapper's InterpretRecording /               *)
(* interpretRecordingInEditor call settles.                                *)
(***************************************************************************)
CallSettled == host.call \in {"completed", "threw"}

C38_StopCompletes == host.stopCalled ~> CallSettled


\* interpretationInProgress, lines 344-346.
interpretationInProgress(h) == h.interpreter

\* The run() the wrapper started has not returned (nor thrown) yet.
RunPending == host.run \in {"scripts", "top", "body", "flag", "done"}

(***************************************************************************)
(* C39: interpretationInProgress() is true exactly while a run() started   *)
(* by the wrapper has not yet returned: true from the creation of the      *)
(* Interpreter until the run finishes, false otherwise, under every        *)
(* interleaving of interpretation, stopInterpretation and socket events.   *)
(***************************************************************************)
C39_InProgressExactly == interpretationInProgress(host) <=> RunPending


\* InterpretRecording has just returned.
RecordingReturned ==
    host.mode = "recording" /\ host.call = "completed" /\ host.event = "finished"

\* The object holds the items of the array, the one at index i under item-<i>.
HoldsInOrder(object, array) ==
    /\ Len(object) = Len(array)
    /\ \A i \in 1..Len(array) :
          \E n \in 1..Len(object) : object[n] = [key |-> i - 1, value |-> array[i]]

Cleared(h) ==
    /\ h.serializableData = <<>> /\ h.binaryData = <<>>
    /\ ~h.interpreter /\ ~h.interpretationIsPaused
    /\ h.activeId = Null /\ h.breakpoints = {} /\ h.interpretationResume = 0

(***************************************************************************)
(* C40: the serializableOutput InterpretRecording returns holds at most    *)
(* one entry: when the run delivered more than one payload to              *)
(* serializableCallback, only the last one delivered is kept, as item-0;   *)
(* binaryOutput holds every binary payload delivered, item-<i> being the   *)
(* i-th in delivery order; afterwards the wrapper's accumulated state is   *)
(* cleared.                                                                *)
(***************************************************************************)
C40_RecordingOutput ==
    RecordingReturned =>
        /\ Len(host.result.serializableOutput) <= 1
        /\ Len(host.sentSerializable) > 1 =>
              host.result.serializableOutput =
                  <<[key |-> 0, value |-> host.sentSerializable[Len(host.sentSerializable)]]>>
        /\ HoldsInOrder(host.result.binaryOutput, host.sentBinary)
        /\ Cleared(host)

====
